---- MODULE Spec2Model ----
(***************************************************************************)
(* Model of the pixel-agents extension host: the transcript tailer         *)
(* (readNewLines), the two transcript parsers, the per-agent timers, the   *)
(* project scan with reassignment, and the agent registry.                 *)
(*                                                                         *)
(* A log file is a sequence of bytes.  A byte is named by a short string;  *)
(* "LF" is the newline, "SP" a blank, "C3" and "A9" the lead and the       *)
(* continuation byte of one two-byte UTF-8 character; every other byte     *)
(* stands for a piece of JSON text.  JSON.parse is a table from line text  *)
(* to the record the parsers walk.                                         *)
(***************************************************************************)
EXTENDS Integers, Sequences, FiniteSets, TLC

VARIABLES
    files,            \* the log directory: path -> bytes of the file (domain = existing files)
    mtimeOrder,       \* existing paths, least recently modified first (stat.mtimeMs order)
    agents,           \* Map<number, AgentState>
    nextAgentId,      \* nextAgentIdRef.current
    nextTerminalIndex,\* nextTerminalIndexRef.current
    fileWatchers,     \* Map<number, FSWatcher>: ids that have an entry
    pollingTimers,    \* Map<number, Interval>: ids that have an entry
    waitingTimers,    \* Map<number, Timeout>: ids that have an entry
    permissionTimers, \* Map<number, Timeout>: ids that have an entry
    jsonlPollTimers,  \* Map<number, Interval>: ids that have an entry
    liveWatchers,     \* id -> number of fs.watch handles not yet closed
    livePolls,        \* id -> number of backup intervals not yet cleared
    doneTimers,       \* pending 300 ms completion timeouts, in arming order
    activeAgentId,    \* activeAgentIdRef.current (0 is null)
    knownJsonlFiles,  \* Set<string>
    projectScanTimer, \* "" when null, else the directory the interval scans
    recentFiles,      \* id -> files with mtimeMs >= launchedAtMs - 2000 of that launch
    out,              \* messages posted to the webview by the last handler
    hist,             \* history: bytes read, lines parsed, reassignments, sink view,
                      \* launches and restores, file size when a restore began to tail
    editor            \* the layout editor of the webview: EditorState.undoStack, the
                      \* refs of useEditorActions, the office layout, the pending
                      \* setTimeout calls and the saveLayout messages posted

vars == <<files, mtimeOrder, agents, nextAgentId, nextTerminalIndex, fileWatchers,
          pollingTimers, waitingTimers, permissionTimers, jsonlPollTimers,
          liveWatchers, livePolls, doneTimers, activeAgentId, knownJsonlFiles,
          projectScanTimer, recentFiles, out, hist, editor>>

hostVars == <<files, mtimeOrder, agents, nextAgentId, nextTerminalIndex, fileWatchers,
              pollingTimers, waitingTimers, permissionTimers, jsonlPollTimers,
              liveWatchers, livePolls, doneTimers, activeAgentId, knownJsonlFiles,
              projectScanTimer, recentFiles, out, hist>>

(* ------------------------------ bounds --------------------------------- *)

MaxAgents == 2
MaxFileLen == 4
MaxLines == 3
MaxOther == 2

(* --------------------------- program constants ------------------------- *)

AGENT_PROVIDERS == {"claude", "codex"}
DEFAULT_AGENT_PROVIDER == "claude"

AgentIds == 1..MaxAgents
ToolIds == {"1", "2"}

(* ------------------------- sequences of bytes -------------------------- *)

Last(q) == q[Len(q)]
Front(q) == SubSeq(q, 1, Len(q) - 1)

RECURSIVE Utf8Decode(_)
\* buf.toString('utf-8'): a complete two-byte character decodes to one
\* character, a lead byte without its continuation and a continuation byte
\* without its lead decode to U+FFFD each.
Utf8Decode(buf) ==
    IF buf = <<>> THEN <<>>
    ELSE IF Head(buf) = "C3"
         THEN IF Len(buf) >= 2 /\ buf[2] = "A9"
              THEN <<"e-acute">> \o Utf8Decode(SubSeq(buf, 3, Len(buf)))
              ELSE <<"FFFD">> \o Utf8Decode(Tail(buf))
         ELSE IF Head(buf) = "A9"
              THEN <<"FFFD">> \o Utf8Decode(Tail(buf))
              ELSE <<Head(buf)>> \o Utf8Decode(Tail(buf))

RECURSIVE Split(_)
\* text.split('\n'): always at least one element, the last one being the
\* text after the last newline.
Split(text) ==
    IF \A i \in 1..Len(text) : text[i] # "LF" THEN <<text>>
    ELSE LET i == CHOOSE k \in 1..Len(text) :
                      text[k] = "LF" /\ \A j \in 1..(k - 1) : text[j] # "LF"
         IN <<SubSeq(text, 1, i - 1)>> \o Split(SubSeq(text, i + 1, Len(text)))

RECURSIVE Trim(_)
\* String.prototype.trim
Trim(line) ==
    IF line = <<>> THEN line
    ELSE IF Head(line) = "SP" THEN Trim(Tail(line))
    ELSE IF Last(line) = "SP" THEN Trim(Front(line))
    ELSE line

(* ------------------------------ strings -------------------------------- *)

\* A string of the program is a sequence of one-character strings.
Str_npm_test == <<"n", "p", "m", " ", "t", "e", "s", "t">>
Str_repo_a_ts == <<"/", "r", "e", "p", "o", "/", "a", ".", "t", "s">>
Str_long_command == [i \in 1..31 |-> "x"]

RECURSIVE StripTrailingSlashes(_)
StripTrailingSlashes(p) ==
    IF Len(p) > 1 /\ Last(p) = "/" THEN StripTrailingSlashes(Front(p)) ELSE p

\* path.basename (posix): the part after the last separator, trailing
\* separators ignored.
Basename(path) ==
    LET p == StripTrailingSlashes(path)
        cuts == {i \in 1..Len(p) : p[i] = "/"}
    IN IF p = <<"/">> THEN <<>>
       ELSE IF cuts = {} THEN p
       ELSE LET k == CHOOSE i \in cuts : \A j \in cuts : j <= i
            IN SubSeq(p, k + 1, Len(p))

(* ------------------------------ records -------------------------------- *)

\* The input / arguments object of a tool record; an absent property is <<>>.
NoInput == [present |-> FALSE, file_path |-> <<>>, command |-> <<>>]
Input(file_path, command) ==
    [present |-> TRUE, file_path |-> file_path, command |-> command]

\* A content block; id "" is an absent id; type "null" is a JSON null in the
\* blocks array (reading its .type throws TypeError).
Block(type, id, name, input) ==
    [type |-> type, id |-> id, name |-> name, input |-> input]

\* The value JSON.parse returns.  kind "throws": JSON.parse throws; kind
\* "null": the JSON text null; kind "object": an object with these properties
\* ("" and "none" are absent properties).
NoRec ==
    [kind |-> "object", type |-> "", subtype |-> "", role |-> "", text |-> "",
     contentKind |-> "none", blocks |-> <<>>,
     tool_id |-> "", id |-> "", tool_name |-> "", name |-> "",
     input |-> NoInput, arguments |-> NoInput, status |-> ""]

ToolUse(id) ==
    IF id = "1" THEN Block("tool_use", "1", "Read", Input(Str_repo_a_ts, <<>>))
    ELSE Block("tool_use", id, "Bash", Input(<<>>, Str_npm_test))

Assistant(blocks) ==
    [NoRec EXCEPT !.type = "assistant", !.contentKind = "array", !.blocks = blocks]
User(blocks) ==
    [NoRec EXCEPT !.type = "user", !.contentKind = "array", !.blocks = blocks]

\* JSON.parse on the text of one line (surrounding blanks are JSON whitespace).
ParseJson(line) ==
    LET t == Trim(line) IN
    CASE Len(t) = 2 /\ t[1] = "S" /\ t[2] \in ToolIds -> Assistant(<<ToolUse(t[2])>>)
      [] Len(t) = 2 /\ t[1] = "R" /\ t[2] \in ToolIds ->
             User(<<Block("tool_result", t[2], "", NoInput)>>)
      [] t = <<"M">> ->
             Assistant(<<Block("text", "", "", NoInput), ToolUse("1"), ToolUse("2")>>)
      [] t = <<"B">> -> Assistant(<<ToolUse("1"), Block("null", "", "", NoInput)>>)
      [] t = <<"T">> -> Assistant(<<Block("text", "", "", NoInput)>>)
      [] t = <<"K">> -> Assistant(<<Block("thinking", "", "", NoInput)>>)
      [] t = <<"U">> -> [NoRec EXCEPT !.type = "user", !.contentKind = "string"]
      [] t = <<"V">> -> User(<<Block("text", "", "", NoInput)>>)
      [] t = <<"D">> -> [NoRec EXCEPT !.type = "system", !.subtype = "turn_duration"]
      [] Len(t) = 2 /\ t[1] = "C" /\ t[2] \in ToolIds ->
             [NoRec EXCEPT !.type = "tool_call", !.id = t[2],
                           !.name = IF t[2] = "1" THEN "run_command" ELSE "ask_user",
                           !.arguments = Input(<<>>, Str_npm_test)]
      [] Len(t) = 2 /\ t[1] = "G" /\ t[2] \in ToolIds ->
             [NoRec EXCEPT !.type = "tool_start", !.tool_id = t[2],
                           !.id = IF t[2] = "1" THEN "2" ELSE "1",
                           !.tool_name = "read_file", !.name = "bash",
                           !.input = Input(Str_repo_a_ts, <<>>),
                           !.arguments = Input(<<>>, Str_npm_test)]
      [] Len(t) = 2 /\ t[1] = "E" /\ t[2] \in ToolIds ->
             [NoRec EXCEPT !.type = "tool_end", !.tool_id = t[2]]
      [] t = <<"W">> -> [NoRec EXCEPT !.type = "status", !.status = "waiting"]
      [] t = <<"I">> -> [NoRec EXCEPT !.type = "status", !.status = "idle"]
      [] t = <<"A">> -> [NoRec EXCEPT !.type = "status", !.status = "active"]
      [] t = <<"P">> -> [NoRec EXCEPT !.type = "user", !.text = "prompt"]
      [] t = <<"N">> -> [NoRec EXCEPT !.kind = "null"]
      [] OTHER -> [NoRec EXCEPT !.kind = "throws"]

(* --------------------------- formatToolStatus -------------------------- *)

\* formatToolStatus that shows the whole path of the file, not its base name.
formatToolStatus_fullPath(toolName, input) ==
    CASE toolName = "Read" -> <<"Reading ">> \o input.file_path
      [] toolName = "Edit" -> <<"Editing ">> \o input.file_path
      [] toolName = "Write" -> <<"Writing ">> \o input.file_path
      [] toolName = "Bash" -> <<"Running: ">> \o input.command
      [] OTHER -> <<"Using ", toolName>>

formatToolStatus(toolName, input) ==
    CASE toolName = "Read" -> <<"Reading ">> \o Basename(input.file_path)
      [] toolName = "Edit" -> <<"Editing ">> \o Basename(input.file_path)
      [] toolName = "Write" -> <<"Writing ">> \o Basename(input.file_path)
      [] toolName = "Bash" ->
             <<"Running: ">> \o
                 (IF Len(input.command) > 30
                  THEN SubSeq(input.command, 1, 30) \o <<"...">>
                  ELSE input.command)
      [] toolName = "Glob" -> <<"Searching files">>
      [] toolName = "Grep" -> <<"Searching code">>
      [] toolName = "WebFetch" -> <<"Fetching web content">>
      [] toolName = "WebSearch" -> <<"Searching the web">>
      [] toolName = "Task" -> <<"Running subtask">>
      [] toolName = "AskUserQuestion" -> <<"Waiting for your answer">>
      [] toolName = "EnterPlanMode" -> <<"Planning">>
      [] toolName = "NotebookEdit" -> <<"Editing notebook">>
      [] OTHER -> <<"Using ", toolName>>

(* --------------------------- program state ----------------------------- *)

\* The handlers are written as functions from program state to program
\* state; a handler of the program is one such function applied to Cur.
Cur ==
    [agents |-> agents, nextAgentId |-> nextAgentId,
     nextTerminalIndex |-> nextTerminalIndex,
     fileWatchers |-> fileWatchers, pollingTimers |-> pollingTimers,
     waitingTimers |-> waitingTimers, permissionTimers |-> permissionTimers,
     jsonlPollTimers |-> jsonlPollTimers,
     liveWatchers |-> liveWatchers, livePolls |-> livePolls,
     doneTimers |-> doneTimers, activeAgentId |-> activeAgentId,
     knownJsonlFiles |-> knownJsonlFiles, projectScanTimer |-> projectScanTimer,
     recentFiles |-> recentFiles, out |-> <<>>, thrown |-> FALSE, hist |-> hist]

Msg(type, id, toolId, status) ==
    [type |-> type, id |-> id, toolId |-> toolId, status |-> status]

\* webview.postMessage; the history keeps, per agent and tool id, the last of
\* agentToolStart / agentToolDone the sink was sent.
postMessage(s, msg) ==
    [s EXCEPT !.out = Append(@, msg),
              !.hist.sink =
                  IF msg.type = "agentToolStart"
                  THEN [@ EXCEPT ![<<msg.id, msg.toolId>>] = "started"]
                  ELSE IF msg.type = "agentToolDone"
                  THEN [@ EXCEPT ![<<msg.id, msg.toolId>>] = "finished"]
                  ELSE @]

MapDel(m, k) == [x \in (DOMAIN m) \ {k} |-> m[x]]
MapSet(m, k, v) == [x \in (DOMAIN m) \cup {k} |-> IF x = k THEN v ELSE m[x]]

Has(s, agentId) == agentId \in DOMAIN s.agents

(* ------------------------------- timers -------------------------------- *)

\* cancelWaitingTimer that leaves the timer pending.
cancelWaitingTimer_keepsTimer(s, agentId) == s

\* hist.liveWaiting counts, per agent, the setTimeout callbacks of
\* startWaitingTimer that were neither cleared nor run.
cancelWaitingTimer(s, agentId) ==
    IF agentId \in s.waitingTimers
    THEN [s EXCEPT !.waitingTimers = @ \ {agentId},
                   !.hist.liveWaiting[agentId] = @ - 1]
    ELSE s

\* startWaitingTimer without the cancelWaitingTimer call.
startWaitingTimer_noCancel(s, agentId) ==
    [s EXCEPT !.waitingTimers = @ \cup {agentId},
              !.hist.liveWaiting[agentId] = @ + 1]

startWaitingTimer(s, agentId) ==
    [cancelWaitingTimer(s, agentId) EXCEPT
        !.waitingTimers = @ \cup {agentId},
        !.hist.liveWaiting[agentId] = @ + 1]

\* waitingTimerCallback that also empties the active tools of the agent.
waitingTimerCallback_clearsTools(s, agentId) ==
    LET s1 == [s EXCEPT !.waitingTimers = @ \ {agentId},
                        !.hist.liveWaiting[agentId] = @ - 1]
        s2 == IF Has(s1, agentId)
              THEN [s1 EXCEPT !.agents[agentId].isWaiting = TRUE,
                              !.agents[agentId].activeToolIds = {}]
              ELSE s1
    IN postMessage(s2, Msg("agentStatus", agentId, "", "waiting"))

\* The callback of the timeout startWaitingTimer arms.
waitingTimerCallback(s, agentId) ==
    LET s1 == [s EXCEPT !.waitingTimers = @ \ {agentId},
                        !.hist.liveWaiting[agentId] = @ - 1]
        s2 == IF Has(s1, agentId)
              THEN [s1 EXCEPT !.agents[agentId].isWaiting = TRUE]
              ELSE s1
    IN postMessage(s2, Msg("agentStatus", agentId, "", "waiting"))

cancelPermissionTimer(s, agentId) ==
    [s EXCEPT !.permissionTimers = @ \ {agentId}]

PERMISSION_EXEMPT_TOOLS == {"Task", "AskUserQuestion"}

startPermissionTimer(s, agentId) ==
    [cancelPermissionTimer(s, agentId) EXCEPT !.permissionTimers = @ \cup {agentId}]

\* The callback of the stall timer: flags the agent when a tool that may
\* need a confirmation is still outstanding.
permissionTimerCallback(s, agentId) ==
    LET s1 == [s EXCEPT !.permissionTimers = @ \ {agentId}] IN
    IF ~Has(s1, agentId) THEN s1
    ELSE IF \E t \in DOMAIN s1.agents[agentId].activeToolNames :
                s1.agents[agentId].activeToolNames[t] \notin PERMISSION_EXEMPT_TOOLS
    THEN postMessage([s1 EXCEPT !.agents[agentId].permissionSent = TRUE],
                     Msg("agentToolPermission", agentId, "", ""))
    ELSE s1

\* The callback of the timeout a completion record arms (TOOL_DONE_DELAY_MS).
doneTimerCallback_keepsTimer(s) ==
    LET t == Head(s.doneTimers) IN
    postMessage(s, Msg("agentToolDone", t[1], t[2], ""))

doneTimerCallback(s) ==
    LET t == Head(s.doneTimers) IN
    postMessage([s EXCEPT !.doneTimers = Tail(@)],
                Msg("agentToolDone", t[1], t[2], ""))

clearAgentActivity(s, agentId) ==
    IF ~Has(s, agentId) THEN s
    ELSE LET s1 == [s EXCEPT !.agents[agentId].activeToolIds = {},
                             !.agents[agentId].activeToolStatuses = <<>>,
                             !.agents[agentId].activeToolNames = <<>>,
                             !.agents[agentId].isWaiting = FALSE]
             s2 == postMessage(s1, Msg("agentToolsClear", agentId, "", ""))
         IN postMessage(s2, Msg("agentStatus", agentId, "", "active"))

\* clearAgentActivity of the timer manager, as the Codex parser calls it: it
\* is handed the permission timers as well.
clearAgentActivityTM(s, agentId) ==
    clearAgentActivity(
        cancelPermissionTimer(
            [s EXCEPT !.agents[agentId].permissionSent = FALSE], agentId),
        agentId)

(* --------------------------- Claude parser ----------------------------- *)

RECURSIVE SomeType(_, _)
\* blocks.some(b => b.type === type): "true", "false", or "throws" when a
\* null block is reached before a block of the type.
SomeType(blocks, type) ==
    IF blocks = <<>> THEN "false"
    ELSE IF Head(blocks).type = "null" THEN "throws"
    ELSE IF Head(blocks).type = type THEN "true"
    ELSE SomeType(Tail(blocks), type)

RECURSIVE toolUseBlocks(_, _, _)
\* The loop over the blocks of an assistant record that has a tool_use.
toolUseBlocks(s, agentId, blocks) ==
    IF blocks = <<>> THEN s
    ELSE LET block == Head(blocks) IN
         IF block.type = "null" THEN s
         ELSE IF block.type = "tool_use" /\ block.id # ""
         THEN LET status == formatToolStatus(block.name, block.input)
                  s1 == [s EXCEPT
                            !.agents[agentId].activeToolIds = @ \cup {block.id},
                            !.agents[agentId].activeToolStatuses =
                                MapSet(@, block.id, status)]
              IN toolUseBlocks(
                     postMessage(s1, Msg("agentToolStart", agentId, block.id, status)),
                     agentId, Tail(blocks))
         ELSE toolUseBlocks(s, agentId, Tail(blocks))

RECURSIVE toolResultBlocks(_, _, _)
\* The loop over the blocks of a user record that has a tool_result.
toolResultBlocks(s, agentId, blocks) ==
    IF blocks = <<>> THEN s
    ELSE LET block == Head(blocks) IN
         IF block.type = "null" THEN s
         ELSE IF block.type = "tool_result" /\ block.id # ""
         THEN toolResultBlocks(
                  [s EXCEPT
                      !.agents[agentId].activeToolIds = @ \ {block.id},
                      !.agents[agentId].activeToolStatuses = MapDel(@, block.id),
                      !.doneTimers = Append(@, <<agentId, block.id>>)],
                  agentId, Tail(blocks))
         ELSE toolResultBlocks(s, agentId, Tail(blocks))

processClaudeTranscriptLine(s, agentId, line) ==
    IF ~Has(s, agentId) THEN s
    ELSE LET record == ParseJson(line) IN
    IF record.kind # "object" THEN s
    ELSE IF record.type = "assistant" /\ record.contentKind = "array"
    THEN LET hasToolUse == SomeType(record.blocks, "tool_use") IN
         IF hasToolUse = "throws" THEN s
         ELSE IF hasToolUse = "true"
         THEN LET s1 == [cancelWaitingTimer(s, agentId)
                             EXCEPT !.agents[agentId].isWaiting = FALSE]
                  s2 == postMessage(s1, Msg("agentStatus", agentId, "", "active"))
              IN toolUseBlocks(s2, agentId, record.blocks)
         ELSE IF SomeType(record.blocks, "text") = "true"
         THEN startWaitingTimer(s, agentId)
         ELSE s
    ELSE IF record.type = "user"
    THEN IF record.contentKind = "array"
         THEN LET hasToolResult == SomeType(record.blocks, "tool_result") IN
              IF hasToolResult = "throws" THEN s
              ELSE IF hasToolResult = "true"
              THEN toolResultBlocks(s, agentId, record.blocks)
              ELSE clearAgentActivity(cancelWaitingTimer(s, agentId), agentId)
         ELSE IF record.contentKind = "string"
         THEN clearAgentActivity(cancelWaitingTimer(s, agentId), agentId)
         ELSE s
    ELSE IF record.type = "system" /\ record.subtype = "turn_duration"
    THEN postMessage(
             [cancelWaitingTimer(s, agentId) EXCEPT !.agents[agentId].isWaiting = TRUE],
             Msg("agentStatus", agentId, "", "waiting"))
    ELSE s

(* ---------------------------- Codex parser ----------------------------- *)

CODEX_TOOL_NAME_MAP ==
    [read_file |-> "Read", read |-> "Read", write_file |-> "Write", write |-> "Write",
     edit_file |-> "Edit", edit |-> "Edit", run_command |-> "Bash", bash |-> "Bash",
     shell |-> "Bash", search_files |-> "Glob", glob |-> "Glob", grep |-> "Grep",
     search_code |-> "Grep", web_fetch |-> "WebFetch", web_search |-> "WebSearch",
     ask_user |-> "AskUserQuestion", ask_user_question |-> "AskUserQuestion",
     plan |-> "EnterPlanMode"]

\* normalizeCodexToolName that does not look the name up in the table.
normalizeCodexToolName_unmapped(name) ==
    IF name = "" THEN "Tool" ELSE name

\* The names of the table are lower case, and so are the names of the records
\* of this model: toLowerCase changes none of them.
normalizeCodexToolName(name) ==
    IF name = "" THEN "Tool"
    ELSE IF name \in DOMAIN CODEX_TOOL_NAME_MAP THEN CODEX_TOOL_NAME_MAP[name]
    ELSE name

isCodexToolRecord(record) ==
    /\ record.kind = "object"
    /\ record.type \in {"tool_start", "tool_end", "tool_call", "tool_result"}

isCodexStatusRecord(record) ==
    record.kind = "object" /\ record.type = "status"

extractToolId(record) ==
    IF record.tool_id # "" THEN record.tool_id ELSE record.id

extractToolName(record) ==
    normalizeCodexToolName(
        IF record.tool_name # "" THEN record.tool_name ELSE record.name)

extractToolInput(record) ==
    IF record.input.present THEN record.input
    ELSE IF record.arguments.present THEN record.arguments
    ELSE NoInput

\* handleToolStart that arms the permission timer for every tool.
handleToolStart_alwaysArms(s, agentId, record) ==
    LET toolId == extractToolId(record) IN
    IF toolId = "" THEN s
    ELSE LET toolName == extractToolName(record)
             status == formatToolStatus(toolName, extractToolInput(record))
             s1 == [cancelWaitingTimer(s, agentId) EXCEPT
                       !.agents[agentId].isWaiting = FALSE,
                       !.agents[agentId].permissionSent = FALSE,
                       !.agents[agentId].activeToolIds = @ \cup {toolId},
                       !.agents[agentId].activeToolNames = MapSet(@, toolId, toolName),
                       !.agents[agentId].activeToolStatuses = MapSet(@, toolId, status)]
             s2 == postMessage(s1, Msg("agentStatus", agentId, "", "active"))
             s3 == postMessage(s2, Msg("agentToolStart", agentId, toolId, status))
         IN startPermissionTimer(s3, agentId)

handleToolStart(s, agentId, record) ==
    LET toolId == extractToolId(record) IN
    IF toolId = "" THEN s
    ELSE LET toolName == extractToolName(record)
             status == formatToolStatus(toolName, extractToolInput(record))
             s1 == [cancelWaitingTimer(s, agentId) EXCEPT
                       !.agents[agentId].isWaiting = FALSE,
                       !.agents[agentId].permissionSent = FALSE,
                       !.agents[agentId].activeToolIds = @ \cup {toolId},
                       !.agents[agentId].activeToolNames = MapSet(@, toolId, toolName),
                       !.agents[agentId].activeToolStatuses = MapSet(@, toolId, status)]
             s2 == postMessage(s1, Msg("agentStatus", agentId, "", "active"))
             s3 == postMessage(s2, Msg("agentToolStart", agentId, toolId, status))
         IN IF toolName \notin PERMISSION_EXEMPT_TOOLS
            THEN startPermissionTimer(s3, agentId)
            ELSE s3

handleToolEnd(s, agentId, record) ==
    LET toolId == extractToolId(record) IN
    IF toolId = "" THEN s
    ELSE LET s1 == [s EXCEPT
                       !.agents[agentId].activeToolIds = @ \ {toolId},
                       !.agents[agentId].activeToolNames = MapDel(@, toolId),
                       !.agents[agentId].activeToolStatuses = MapDel(@, toolId),
                       !.doneTimers = Append(@, <<agentId, toolId>>)]
         IN IF s1.agents[agentId].activeToolIds = {}
            THEN postMessage(
                     [cancelPermissionTimer(s1, agentId) EXCEPT
                         !.agents[agentId].isWaiting = TRUE,
                         !.agents[agentId].permissionSent = FALSE],
                     Msg("agentStatus", agentId, "", "waiting"))
            ELSE s1

\* processCodexTranscriptLine without the fallback to the Claude parser.
processCodexTranscriptLine_noFallback(s, agentId, line) ==
    IF ~Has(s, agentId) THEN s
    ELSE LET parsed == ParseJson(line) IN
    IF parsed.kind = "throws" THEN s
    ELSE IF isCodexToolRecord(parsed)
    THEN IF parsed.type \in {"tool_start", "tool_call"}
         THEN handleToolStart(s, agentId, parsed)
         ELSE handleToolEnd(s, agentId, parsed)
    ELSE IF isCodexStatusRecord(parsed) /\ parsed.status \in {"waiting", "idle"}
    THEN postMessage(
             [cancelPermissionTimer(s, agentId) EXCEPT
                 !.agents[agentId].isWaiting = TRUE,
                 !.agents[agentId].permissionSent = FALSE],
             Msg("agentStatus", agentId, "", "waiting"))
    ELSE IF isCodexStatusRecord(parsed) /\ parsed.status = "active"
    THEN postMessage(
             [cancelWaitingTimer(s, agentId) EXCEPT !.agents[agentId].isWaiting = FALSE],
             Msg("agentStatus", agentId, "", "active"))
    ELSE IF parsed.kind = "null" THEN [s EXCEPT !.thrown = TRUE]
    ELSE IF (parsed.type = "user" \/ parsed.role = "user") /\ parsed.text # ""
    THEN [clearAgentActivityTM(cancelWaitingTimer(s, agentId), agentId)
              EXCEPT !.agents[agentId].hadToolsInTurn = FALSE]
    ELSE s

processCodexTranscriptLine(s, agentId, line) ==
    IF ~Has(s, agentId) THEN s
    ELSE LET parsed == ParseJson(line) IN
    IF parsed.kind = "throws" THEN s
    ELSE IF isCodexToolRecord(parsed)
    THEN IF parsed.type \in {"tool_start", "tool_call"}
         THEN handleToolStart(s, agentId, parsed)
         ELSE handleToolEnd(s, agentId, parsed)
    ELSE IF isCodexStatusRecord(parsed) /\ parsed.status \in {"waiting", "idle"}
    THEN postMessage(
             [cancelPermissionTimer(s, agentId) EXCEPT
                 !.agents[agentId].isWaiting = TRUE,
                 !.agents[agentId].permissionSent = FALSE],
             Msg("agentStatus", agentId, "", "waiting"))
    ELSE IF isCodexStatusRecord(parsed) /\ parsed.status = "active"
    THEN postMessage(
             [cancelWaitingTimer(s, agentId) EXCEPT !.agents[agentId].isWaiting = FALSE],
             Msg("agentStatus", agentId, "", "active"))
    \* parsed is null: reading maybeUserText.type throws out of the parser
    ELSE IF parsed.kind = "null" THEN [s EXCEPT !.thrown = TRUE]
    ELSE IF (parsed.type = "user" \/ parsed.role = "user") /\ parsed.text # ""
    THEN [clearAgentActivityTM(cancelWaitingTimer(s, agentId), agentId)
              EXCEPT !.agents[agentId].hadToolsInTurn = FALSE]
    ELSE processClaudeTranscriptLine(s, agentId, line)

resolveAgentProvider(provider) ==
    IF provider = "codex" THEN "codex"
    ELSE DEFAULT_AGENT_PROVIDER

\* processTranscriptLine that hands every line to the Claude parser.
processTranscriptLine_claudeOnly(s, agentId, line) ==
    IF ~Has(s, agentId) THEN s
    ELSE processClaudeTranscriptLine(s, agentId, line)

processTranscriptLine(s, agentId, line) ==
    IF ~Has(s, agentId) THEN s
    ELSE IF s.agents[agentId].provider = "codex"
    THEN processCodexTranscriptLine(s, agentId, line)
    ELSE processClaudeTranscriptLine(s, agentId, line)

(* ------------------------------- paths --------------------------------- *)

\* A path is <<directory, kind, n>>: <<d, "session", n>> is the file named by
\* the session id of the n-th launch, <<d, "other", n>> any other log file.
\* <<>> is the empty path ''.
NoPath == <<>>
Dirs == {"claude", "codex"}
Paths ==
    {<<"claude", "session", n>> : n \in 1..MaxAgents}
        \cup {<<d, "other", n>> : d \in Dirs, n \in 1..MaxOther}

projectDirFromWorkspace(provider) == provider

expectedSessionFilePath(provider, sessionId) ==
    IF provider = "claude" THEN <<"claude", "session", sessionId>> ELSE NoPath

\* fs.readdirSync(projectDir) filtered to the log files.
FilesIn(projectDir) == {f \in DOMAIN files : f[1] = projectDir}

\* The position of a file in the order of modification times.
MTime(f) == CHOOSE i \in 1..Len(mtimeOrder) : mtimeOrder[i] = f

Newest(fs) == CHOOSE f \in fs : \A g \in fs : MTime(g) <= MTime(f)

(* ------------------------------ the tailer ----------------------------- *)

RECURSIVE processLines(_, _, _)
\* The loop of readNewLines over the complete lines of one read.
processLines(s, agentId, lines) ==
    IF lines = <<>> \/ s.thrown THEN s
    ELSE IF Trim(Head(lines)) = <<>>
    THEN processLines(s, agentId, Tail(lines))
    ELSE processLines(
             processTranscriptLine(
                 [s EXCEPT !.hist.parsed[agentId] = Append(@, Head(lines))],
                 agentId, Head(lines)),
             agentId, Tail(lines))

\* What the file system does in one readNewLines: every call succeeds, or
\* statSync, openSync, readSync or closeSync throws.
IoFailures == {"stat", "open", "read", "close"}
IoOutcomes == {"ok"} \cup IoFailures

\* readNewLines with agent.fileOffset = stat.size moved before openSync.
readNewLinesIO_offsetFirst(s, agentId, io) ==
    IF ~Has(s, agentId) THEN s
    ELSE LET agent == s.agents[agentId] IN
    IF io = "stat" \/ agent.jsonlFile \notin DOMAIN files THEN s
    ELSE LET size == Len(files[agent.jsonlFile]) IN
    IF size <= agent.fileOffset THEN s
    ELSE LET s0 == [s EXCEPT !.agents[agentId].fileOffset = size] IN
    IF io \in {"open", "read", "close"} THEN s0
    ELSE LET buf == SubSeq(files[agent.jsonlFile], agent.fileOffset + 1, size)
             text == agent.lineBuffer \o Utf8Decode(buf)
             lines == Split(text)
             s1 == [s0 EXCEPT !.agents[agentId].lineBuffer = Last(lines),
                              !.hist.delivered[agentId] = @ \o buf]
         IN [processLines(s1, agentId, Front(lines)) EXCEPT !.thrown = FALSE]

\* readNewLines; io is the call of the file system that throws, if any.
readNewLinesIO(s, agentId, io) ==
    IF ~Has(s, agentId) THEN s
    ELSE LET agent == s.agents[agentId] IN
    \* fs.statSync throws, as it does when the file does not exist
    IF io = "stat" \/ agent.jsonlFile \notin DOMAIN files THEN s
    ELSE LET size == Len(files[agent.jsonlFile]) IN
    IF size <= agent.fileOffset THEN s
    \* openSync, readSync or closeSync throws: nothing was assigned yet
    ELSE IF io \in {"open", "read", "close"} THEN s
    ELSE LET buf == SubSeq(files[agent.jsonlFile], agent.fileOffset + 1, size)
             text == agent.lineBuffer \o Utf8Decode(buf)
             lines == Split(text)
             s1 == [s EXCEPT !.agents[agentId].fileOffset = size,
                             !.agents[agentId].lineBuffer = Last(lines),
                             !.hist.delivered[agentId] = @ \o buf]
         IN [processLines(s1, agentId, Front(lines)) EXCEPT !.thrown = FALSE]

Reverse(q) == [i \in 1..Len(q) |-> q[Len(q) + 1 - i]]

\* readNewLines that hands the lines of a read to the parser last line first.
readNewLines_lastFirst(s, agentId) ==
    IF ~Has(s, agentId) THEN s
    ELSE LET agent == s.agents[agentId] IN
    IF agent.jsonlFile \notin DOMAIN files THEN s
    ELSE LET size == Len(files[agent.jsonlFile]) IN
    IF size <= agent.fileOffset THEN s
    ELSE LET buf == SubSeq(files[agent.jsonlFile], agent.fileOffset + 1, size)
             text == agent.lineBuffer \o Utf8Decode(buf)
             lines == Split(text)
             s1 == [s EXCEPT !.agents[agentId].fileOffset = size,
                             !.agents[agentId].lineBuffer = Last(lines),
                             !.hist.delivered[agentId] = @ \o buf]
         IN [processLines(s1, agentId, Reverse(Front(lines))) EXCEPT !.thrown = FALSE]

\* readNewLines without the assignment agent.fileOffset = stat.size.
readNewLines_staleOffset(s, agentId) ==
    IF ~Has(s, agentId) THEN s
    ELSE LET agent == s.agents[agentId] IN
    IF agent.jsonlFile \notin DOMAIN files THEN s
    ELSE LET size == Len(files[agent.jsonlFile]) IN
    IF size <= agent.fileOffset THEN s
    ELSE LET buf == SubSeq(files[agent.jsonlFile], agent.fileOffset + 1, size)
             text == agent.lineBuffer \o Utf8Decode(buf)
             lines == Split(text)
             s1 == [s EXCEPT !.agents[agentId].lineBuffer = Last(lines),
                             !.hist.delivered[agentId] = @ \o buf]
         IN [processLines(s1, agentId, Front(lines)) EXCEPT !.thrown = FALSE]

\* readNewLines when no call of the file system fails.
readNewLines(s, agentId) == readNewLinesIO(s, agentId, "ok")

(* ---------------------------- file watching ---------------------------- *)

startFileWatching(s, agentId, filePath) ==
    LET s1 == IF filePath \in DOMAIN files
              THEN [s EXCEPT !.fileWatchers = @ \cup {agentId},
                             !.liveWatchers[agentId] = @ + 1]
              ELSE s
    IN [s1 EXCEPT !.pollingTimers = @ \cup {agentId},
                  !.livePolls[agentId] = @ + 1]

\* fileWatchers.get(id)?.close(); fileWatchers.delete(id); clearInterval of
\* the backup poll; pollingTimers.delete(id)
stopFileWatching(s, agentId) ==
    [s EXCEPT
        !.liveWatchers[agentId] = IF agentId \in s.fileWatchers THEN @ - 1 ELSE @,
        !.fileWatchers = @ \ {agentId},
        !.livePolls[agentId] = IF agentId \in s.pollingTimers THEN @ - 1 ELSE @,
        !.pollingTimers = @ \ {agentId}]

\* A backup interval whose callback reads nothing.
pollingTimerCallback_idle(s, agentId) ==
    IF ~Has(s, agentId) THEN [s EXCEPT !.livePolls[agentId] = @ - 1]
    ELSE s

\* The callback of the backup interval.
pollingTimerCallback(s, agentId) ==
    IF ~Has(s, agentId) THEN [s EXCEPT !.livePolls[agentId] = @ - 1]
    ELSE readNewLines(s, agentId)

(* ----------------------- scan and reassignment ------------------------- *)

\* reassignAgentToFile that leaves the old watcher and backup poll running.
reassignAgentToFile_keepsWatching(s, agentId, newFilePath) ==
    IF ~Has(s, agentId) THEN s
    ELSE LET s1 == clearAgentActivity(cancelWaitingTimer(s, agentId), agentId)
             s2 == [s1 EXCEPT !.agents[agentId].jsonlFile = newFilePath,
                              !.agents[agentId].fileOffset = 0,
                              !.agents[agentId].lineBuffer = <<>>,
                              !.hist.delivered[agentId] = <<>>,
                              !.hist.parsed[agentId] = <<>>,
                              !.hist.reassigned = Append(@, <<agentId, newFilePath>>)]
         IN readNewLines(startFileWatching(s2, agentId, newFilePath), agentId)

reassignAgentToFile(s, agentId, newFilePath) ==
    IF ~Has(s, agentId) THEN s
    ELSE LET s1 == clearAgentActivity(
                       cancelWaitingTimer(stopFileWatching(s, agentId), agentId),
                       agentId)
             s2 == [s1 EXCEPT !.agents[agentId].jsonlFile = newFilePath,
                              !.agents[agentId].fileOffset = 0,
                              !.agents[agentId].lineBuffer = <<>>,
                              !.hist.delivered[agentId] = <<>>,
                              !.hist.parsed[agentId] = <<>>,
                              !.hist.reassigned = Append(@, <<agentId, newFilePath>>)]
         IN readNewLines(startFileWatching(s2, agentId, newFilePath), agentId)

RECURSIVE scanLoop(_, _)
\* The loop of scanForNewJsonlFiles over the directory listing.
scanLoop(s, listing) ==
    IF listing = <<>> THEN s
    ELSE LET file == Head(listing) IN
         IF file \notin s.knownJsonlFiles
         THEN LET s1 == [s EXCEPT !.knownJsonlFiles = @ \cup {file}] IN
              scanLoop(IF s1.activeAgentId # 0
                       THEN reassignAgentToFile(s1, s1.activeAgentId, file)
                       ELSE s1,
                       Tail(listing))
         ELSE scanLoop(s, Tail(listing))

\* scanForNewJsonlFiles that takes an agent of the registry when no agent is
\* active.
scanForNewJsonlFiles_anyAgent(s, listing) ==
    IF s.activeAgentId \notin DOMAIN s.agents /\ DOMAIN s.agents # {}
    THEN [scanLoop([s EXCEPT !.activeAgentId = CHOOSE a \in DOMAIN s.agents : TRUE],
                   listing)
              EXCEPT !.activeAgentId = s.activeAgentId]
    ELSE scanLoop(s, listing)

\* scanForNewJsonlFiles without knownJsonlFiles.add(file).
scanForNewJsonlFiles_keepsKnown(s, listing) ==
    [scanLoop(s, listing) EXCEPT !.knownJsonlFiles = s.knownJsonlFiles]

scanForNewJsonlFiles(s, listing) == scanLoop(s, listing)

\* ensureProjectScan without the early return on a running timer.
\* hist.liveScans counts the setInterval timers of the scan that run.
ensureProjectScan_again(s, projectDir) ==
    [s EXCEPT !.knownJsonlFiles = @ \cup FilesIn(projectDir),
              !.projectScanTimer = projectDir,
              !.hist.liveScans = @ + 1]

ensureProjectScan(s, projectDir) ==
    IF s.projectScanTimer # "" THEN s
    ELSE [s EXCEPT !.knownJsonlFiles = @ \cup FilesIn(projectDir),
                   !.projectScanTimer = projectDir,
                   !.hist.liveScans = @ + 1]

\* The listings readdirSync can return for a directory: its files in any order.
Listings(projectDir) ==
    LET fs == FilesIn(projectDir) IN
    {q \in [1..Cardinality(fs) -> fs] : \A i, j \in DOMAIN q : i # j => q[i] # q[j]}

(* ------------------------------ registry ------------------------------- *)

NewAgent(jsonlFile, provider) ==
    [jsonlFile |-> jsonlFile, fileOffset |-> 0, lineBuffer |-> <<>>,
     activeToolIds |-> {}, activeToolStatuses |-> <<>>, activeToolNames |-> <<>>,
     isWaiting |-> FALSE, permissionSent |-> FALSE, hadToolsInTurn |-> FALSE,
     provider |-> provider]

\* launchNewTerminal without knownJsonlFiles.add(expectedFile).
launchNewTerminal_expectedUnknown(s, provider, recent) ==
    LET idx == s.nextTerminalIndex
        projectDir == projectDirFromWorkspace(provider)
        expectedFile == expectedSessionFilePath(provider, idx)
        id == s.nextAgentId
        s1 == [s EXCEPT
                  !.nextTerminalIndex = @ + 1,
                  !.hist.launched =
                      IF expectedFile # NoPath THEN @ \cup {expectedFile} ELSE @,
                  !.nextAgentId = @ + 1,
                  !.agents = MapSet(@, id, NewAgent(expectedFile, provider)),
                  !.activeAgentId = id,
                  !.recentFiles[id] = recent]
        s2 == postMessage(s1, Msg("agentCreated", id, "", ""))
    IN [ensureProjectScan(s2, projectDir) EXCEPT !.jsonlPollTimers = @ \cup {id}]

launchNewTerminal(s, provider, recent) ==
    LET idx == s.nextTerminalIndex
        projectDir == projectDirFromWorkspace(provider)
        expectedFile == expectedSessionFilePath(provider, idx)
        id == s.nextAgentId
        s1 == [s EXCEPT
                  !.nextTerminalIndex = @ + 1,
                  \* terminal.sendText: the process that will write expectedFile
                  !.hist.launched =
                      IF expectedFile # NoPath THEN @ \cup {expectedFile} ELSE @,
                  !.knownJsonlFiles =
                      IF expectedFile # NoPath THEN @ \cup {expectedFile} ELSE @,
                  !.nextAgentId = @ + 1,
                  !.agents = MapSet(@, id, NewAgent(expectedFile, provider)),
                  !.activeAgentId = id,
                  !.recentFiles[id] = recent]
        s2 == postMessage(s1, Msg("agentCreated", id, "", ""))
    IN [ensureProjectScan(s2, projectDir) EXCEPT !.jsonlPollTimers = @ \cup {id}]

findLikelySessionFile(projectDir, known, recent) ==
    LET entries == FilesIn(projectDir)
        unseen == entries \ known
    IN IF unseen # {} THEN Newest(unseen)
       ELSE IF entries \cap recent # {} THEN Newest(entries \cap recent)
       ELSE NoPath

\* The callback of the interval launchNewTerminal arms.
jsonlPollCallback(s, id) ==
    LET agent == s.agents[id] IN
    IF agent.jsonlFile # NoPath /\ agent.jsonlFile \in DOMAIN files
    THEN readNewLines(
             startFileWatching([s EXCEPT !.jsonlPollTimers = @ \ {id}],
                               id, agent.jsonlFile),
             id)
    ELSE IF agent.jsonlFile = NoPath
    THEN LET candidate == findLikelySessionFile(
                              projectDirFromWorkspace(agent.provider),
                              s.knownJsonlFiles, s.recentFiles[id])
         IN IF candidate # NoPath
            THEN [s EXCEPT !.agents[id].jsonlFile = candidate,
                           !.knownJsonlFiles = @ \cup {candidate}]
            ELSE s
    ELSE s

(* ------------------------------ restore -------------------------------- *)

\* One pass of the loop of restoreAgents that does not skip to the end of
\* the file.
restoreAgent_fromStart(s, p) ==
    LET s1 == [s EXCEPT
                  !.agents = MapSet(@, p.id, NewAgent(p.jsonlFile,
                                                      resolveAgentProvider(p.provider))),
                  !.knownJsonlFiles = @ \cup {p.jsonlFile},
                  !.hist.restored = @ \cup {p.id}]
    IN IF p.jsonlFile \in DOMAIN files
       THEN startFileWatching(
                [s1 EXCEPT !.hist.skipped[p.id] = Len(files[p.jsonlFile])],
                p.id, p.jsonlFile)
       ELSE [s1 EXCEPT !.jsonlPollTimers = @ \cup {p.id}]

\* One pass of the loop of restoreAgents, for a persisted agent p whose
\* terminal is alive.
restoreAgent(s, p) ==
    LET s1 == [s EXCEPT
                  !.agents = MapSet(@, p.id, NewAgent(p.jsonlFile,
                                                      resolveAgentProvider(p.provider))),
                  !.knownJsonlFiles = @ \cup {p.jsonlFile},
                  !.hist.restored = @ \cup {p.id}]
    IN IF p.jsonlFile \in DOMAIN files
       THEN startFileWatching(
                [s1 EXCEPT !.agents[p.id].fileOffset = Len(files[p.jsonlFile]),
                           !.hist.skipped[p.id] = Len(files[p.jsonlFile])],
                p.id, p.jsonlFile)
       ELSE [s1 EXCEPT !.jsonlPollTimers = @ \cup {p.id}]

RECURSIVE restoreLoop(_, _, _)
\* The loop of restoreAgents; terminals holds the ids of the persisted agents
\* whose terminal is among vscode.window.terminals.
restoreLoop(s, persisted, terminals) ==
    IF persisted = <<>> THEN s
    ELSE IF Head(persisted).id \notin terminals
    THEN restoreLoop(s, Tail(persisted), terminals)
    ELSE restoreLoop(restoreAgent(s, Head(persisted)), Tail(persisted), terminals)

Max(S) == CHOOSE x \in S : \A y \in S : y <= x

\* restoreAgents that does not advance the counters past the restored ids.
restoreAgents_keepsCounters(s, persisted, terminals) ==
    LET live == {i \in DOMAIN persisted : persisted[i].id \in terminals} IN
    IF persisted = <<>> \/ live = {} THEN s
    ELSE LET s1 == restoreLoop(s, persisted, terminals)
             restoredProjectDir ==
                 projectDirFromWorkspace(
                     resolveAgentProvider(persisted[Max(live)].provider))
         IN ensureProjectScan(s1, restoredProjectDir)

\* The terminal of agent id is named "... #id".
restoreAgents(s, persisted, terminals) ==
    LET live == {i \in DOMAIN persisted : persisted[i].id \in terminals} IN
    IF persisted = <<>> \/ live = {} THEN s
    ELSE LET s1 == restoreLoop(s, persisted, terminals)
             maxId == Max({persisted[i].id : i \in live})
             s2 == [s1 EXCEPT
                       !.nextAgentId = IF maxId >= @ THEN maxId + 1 ELSE @,
                       !.nextTerminalIndex = IF maxId >= @ THEN maxId + 1 ELSE @]
             restoredProjectDir ==
                 projectDirFromWorkspace(
                     resolveAgentProvider(persisted[Max(live)].provider))
         IN ensureProjectScan(s2, restoredProjectDir)

\* The callback of the interval restoreAgents arms for a file that did not
\* exist.
restoredPollCallback(s, id) ==
    LET agent == s.agents[id] IN
    IF agent.jsonlFile \in DOMAIN files
    THEN startFileWatching(
             [s EXCEPT !.jsonlPollTimers = @ \ {id},
                       !.agents[id].fileOffset = Len(files[agent.jsonlFile]),
                       !.hist.skipped[id] = Len(files[agent.jsonlFile])],
             id, agent.jsonlFile)
    ELSE s

\* removeAgent without the stop of the file watching.
removeAgent_keepsWatching(s, agentId) ==
    IF ~Has(s, agentId) THEN s
    ELSE LET s1 == [s EXCEPT !.jsonlPollTimers = @ \ {agentId}]
             s3 == cancelPermissionTimer(cancelWaitingTimer(s1, agentId), agentId)
         IN [s3 EXCEPT !.agents = MapDel(@, agentId),
                       !.hist.delivered[agentId] = <<>>,
                       !.hist.parsed[agentId] = <<>>]

removeAgent(s, agentId) ==
    IF ~Has(s, agentId) THEN s
    ELSE LET s1 == [s EXCEPT !.jsonlPollTimers = @ \ {agentId}]
             s2 == stopFileWatching(s1, agentId)
             s3 == cancelPermissionTimer(cancelWaitingTimer(s2, agentId), agentId)
         IN [s3 EXCEPT !.agents = MapDel(@, agentId),
                       !.hist.delivered[agentId] = <<>>,
                       !.hist.parsed[agentId] = <<>>]

\* vscode.window.onDidChangeActiveTerminal; terminal 0 is no terminal or a
\* terminal of no agent.
onDidChangeActiveTerminal(s, terminal) ==
    IF terminal \in DOMAIN s.agents
    THEN postMessage([s EXCEPT !.activeAgentId = terminal],
                     Msg("agentSelected", terminal, "", ""))
    ELSE [s EXCEPT !.activeAgentId = 0]

\* vscode.window.onDidCloseTerminal for the terminal of agent id.
onDidCloseTerminal(s, id) ==
    LET s1 == IF s.activeAgentId = id THEN [s EXCEPT !.activeAgentId = 0] ELSE s
    IN postMessage(removeAgent(s1, id), Msg("agentClosed", id, "", ""))

(* ------------------------- replay to the webview ----------------------- *)

\* The orders a Map can be iterated in: its keys, each once.
Orders(S) ==
    {q \in [1..Cardinality(S) -> S] : \A i, j \in DOMAIN q : i # j => q[i] # q[j]}

RECURSIVE InsertSorted(_, _)
InsertSorted(q, x) ==
    IF q = <<>> THEN <<x>>
    ELSE IF x < Head(q) THEN <<x>> \o q
    ELSE <<Head(q)>> \o InsertSorted(Tail(q), x)

RECURSIVE SortAscending(_)
\* Array.prototype.sort((a, b) => a - b)
SortAscending(q) ==
    IF q = <<>> THEN <<>> ELSE InsertSorted(SortAscending(Tail(q)), Head(q))

ExistingAgentsMsg(agentIds) ==
    [type |-> "existingAgents", id |-> 0, toolId |-> "", status |-> "",
     agents |-> agentIds]

RECURSIVE sendToolStarts(_, _, _)
\* for (const [toolId, status] of agent.activeToolStatuses), in toolOrder
sendToolStarts(s, agentId, toolOrder) ==
    IF toolOrder = <<>> THEN s
    ELSE LET toolId == Head(toolOrder) IN
         sendToolStarts(
             IF toolId \in DOMAIN s.agents[agentId].activeToolStatuses
             THEN postMessage(s, Msg("agentToolStart", agentId, toolId,
                                     s.agents[agentId].activeToolStatuses[toolId]))
             ELSE s,
             agentId, Tail(toolOrder))

RECURSIVE sendCurrentAgentStatuses(_, _, _)
\* for (const [agentId, agent] of agents), in agentOrder
sendCurrentAgentStatuses(s, agentOrder, toolOrder) ==
    IF agentOrder = <<>> THEN s
    ELSE LET agentId == Head(agentOrder)
             s1 == sendToolStarts(s, agentId, toolOrder)
             s2 == IF s1.agents[agentId].isWaiting
                   THEN postMessage(s1, Msg("agentStatus", agentId, "", "waiting"))
                   ELSE s1
         IN sendCurrentAgentStatuses(s2, Tail(agentOrder), toolOrder)

\* sendCurrentAgentStatuses that sends the waiting status of no agent.
sendExistingAgents_toolsOnly(s, agentOrder, toolOrder) ==
    sendCurrentAgentStatuses(
        [postMessage(s, ExistingAgentsMsg(SortAscending(agentOrder)))
            EXCEPT !.agents = [a \in DOMAIN @ |-> [@[a] EXCEPT !.isWaiting = FALSE]]],
        agentOrder, toolOrder)

sendExistingAgents(s, agentOrder, toolOrder) ==
    sendCurrentAgentStatuses(
        postMessage(s, ExistingAgentsMsg(SortAscending(agentOrder))),
        agentOrder, toolOrder)

\* The state of the webview App: agents, selectedAgent (0 is null),
\* agentTools (no entry is <<>>) and agentStatuses (no entry is "").
EmptyView ==
    [agents |-> <<>>, selectedAgent |-> 0,
     agentTools |-> [a \in AgentIds |-> <<>>],
     agentStatuses |-> [a \in AgentIds |-> ""]]

SeqHas(q, x) == \E i \in DOMAIN q : q[i] = x

RECURSIVE MergeNew(_, _)
MergeNew(merged, incoming) ==
    IF incoming = <<>> THEN merged
    ELSE MergeNew(IF SeqHas(merged, Head(incoming)) THEN merged
                  ELSE Append(merged, Head(incoming)),
                  Tail(incoming))

\* The message handler of App.
AppHandler(view, msg) ==
    IF msg.type = "agentCreated"
    THEN [view EXCEPT !.agents = IF SeqHas(@, msg.id) THEN @ ELSE Append(@, msg.id),
                      !.selectedAgent = msg.id]
    ELSE IF msg.type = "agentClosed"
    THEN [view EXCEPT !.agents = SelectSeq(@, LAMBDA a : a # msg.id),
                      !.selectedAgent = IF @ = msg.id THEN 0 ELSE @,
                      !.agentTools[msg.id] = <<>>,
                      !.agentStatuses[msg.id] = ""]
    ELSE IF msg.type = "existingAgents"
    THEN [view EXCEPT !.agents = SortAscending(MergeNew(@, msg.agents))]
    ELSE IF msg.type = "agentToolStart"
    THEN IF \E i \in DOMAIN view.agentTools[msg.id] :
                view.agentTools[msg.id][i].toolId = msg.toolId
         THEN view
         ELSE [view EXCEPT !.agentTools[msg.id] =
                   Append(@, [toolId |-> msg.toolId, status |-> msg.status,
                              done |-> FALSE])]
    ELSE IF msg.type = "agentToolDone"
    THEN [view EXCEPT !.agentTools[msg.id] =
              [i \in DOMAIN @ |-> IF @[i].toolId = msg.toolId
                                   THEN [@[i] EXCEPT !.done = TRUE] ELSE @[i]]]
    ELSE IF msg.type = "agentToolsClear"
    THEN [view EXCEPT !.agentTools[msg.id] = <<>>]
    ELSE IF msg.type = "agentSelected"
    THEN [view EXCEPT !.selectedAgent = msg.id]
    ELSE IF msg.type = "agentStatus"
    THEN [view EXCEPT !.agentStatuses[msg.id] =
              IF msg.status = "active" THEN "" ELSE msg.status]
    ELSE view

RECURSIVE AppReceives(_, _)
AppReceives(view, msgs) ==
    IF msgs = <<>> THEN view
    ELSE AppReceives(AppHandler(view, Head(msgs)), Tail(msgs))

(* --------------------------- the layout editor ------------------------- *)

\* Layouts are told apart by a number; 0 is null.
NumLayouts == 2
Layouts == 1..NumLayouts
NoLayout == 0

\* if (this.undoStack.length > 50)
UNDO_LIMIT == 50

\* useEditorActions and EditorState after construction. timers holds the
\* setTimeout calls not yet run or cleared as <<handle, layout>>, posted the
\* layouts of the saveLayout messages, popped the last return of popUndo and
\* discarded the last layout shifted out of the undo stack.
NewEditor ==
    [layout |-> 1, undoStack |-> <<>>, saveTimerRef |-> 0,
     lastSavedLayoutRef |-> NoLayout, timers |-> {}, posted |-> <<>>,
     popped |-> NoLayout, discarded |-> NoLayout, edits |-> 0]

\* EditorState.pushUndo without the limit.
pushUndo_noShift(e, layout) ==
    [e EXCEPT !.undoStack = Append(@, layout)]

\* EditorState.pushUndo
pushUndo(e, layout) ==
    LET pushed == Append(e.undoStack, layout) IN
    IF Len(pushed) > UNDO_LIMIT
    THEN [e EXCEPT !.undoStack = Tail(pushed), !.discarded = Head(pushed)]
    ELSE [e EXCEPT !.undoStack = pushed]

\* EditorState.popUndo: this.undoStack.pop() || null
popUndo(e) ==
    IF e.undoStack = <<>> THEN [e EXCEPT !.popped = NoLayout]
    ELSE [e EXCEPT !.popped = Last(e.undoStack), !.undoStack = Front(e.undoStack)]

\* EditorState.reset
reset(e) == [e EXCEPT !.undoStack = <<>>]

\* OfficeState.getLayout, OfficeState.rebuildFromLayout
getLayout(e) == e.layout
rebuildFromLayout(e, layout) == [e EXCEPT !.layout = layout]

clearTimeout(e, handle) == [e EXCEPT !.timers = {t \in @ : t[1] # handle}]

\* setTimeout returns a handle that no pending timeout and no ref holds.
NewHandle(e) ==
    CHOOSE h \in 1..(Cardinality(e.timers) + 2) :
        /\ h # e.saveTimerRef
        /\ \A t \in e.timers : t[1] # h
        /\ \A g \in 1..(h - 1) : g = e.saveTimerRef \/ \E t \in e.timers : t[1] = g

\* saveLayout that does not clear the timeout it replaces.
saveLayout_noClear(e, layout) ==
    LET h == NewHandle(e) IN
    [e EXCEPT !.timers = @ \cup {<<h, layout>>}, !.saveTimerRef = h]

\* saveLayout: the debounced save
saveLayout(e, layout) ==
    LET e1 == IF e.saveTimerRef # 0 THEN clearTimeout(e, e.saveTimerRef) ELSE e
        h == NewHandle(e1)
    IN [e1 EXCEPT !.timers = @ \cup {<<h, layout>>}, !.saveTimerRef = h]

\* The callback of the timeout of saveLayout.
saveTimerCallback(e, t) ==
    [e EXCEPT !.timers = @ \ {t}, !.posted = Append(@, t[2])]

applyEdit(e, newLayout) ==
    saveLayout(rebuildFromLayout(pushUndo(e, getLayout(e)), newLayout), newLayout)

handleUndo(e) ==
    LET e1 == popUndo(e) IN
    IF e1.popped = NoLayout THEN e1
    ELSE saveLayout(rebuildFromLayout(e1, e1.popped), e1.popped)

handleReset(e) ==
    IF e.lastSavedLayoutRef = NoLayout THEN e
    ELSE reset(applyEdit(e, e.lastSavedLayoutRef))

handleSave(e) ==
    LET e1 == IF e.saveTimerRef # 0
              THEN [clearTimeout(e, e.saveTimerRef) EXCEPT !.saveTimerRef = 0]
              ELSE e
    IN [e1 EXCEPT !.lastSavedLayoutRef = getLayout(e1),
                  !.posted = Append(@, getLayout(e1))]

(* ------------------------------- actions ------------------------------- *)

Commit(s) ==
    /\ agents' = s.agents
    /\ nextAgentId' = s.nextAgentId
    /\ nextTerminalIndex' = s.nextTerminalIndex
    /\ fileWatchers' = s.fileWatchers
    /\ pollingTimers' = s.pollingTimers
    /\ waitingTimers' = s.waitingTimers
    /\ permissionTimers' = s.permissionTimers
    /\ jsonlPollTimers' = s.jsonlPollTimers
    /\ liveWatchers' = s.liveWatchers
    /\ livePolls' = s.livePolls
    /\ doneTimers' = s.doneTimers
    /\ activeAgentId' = s.activeAgentId
    /\ knownJsonlFiles' = s.knownJsonlFiles
    /\ projectScanTimer' = s.projectScanTimer
    /\ recentFiles' = s.recentFiles
    /\ out' = s.out
    /\ hist' = s.hist

Init ==
    /\ files = <<>>
    /\ mtimeOrder = <<>>
    /\ agents = <<>>
    /\ nextAgentId = 1
    /\ nextTerminalIndex = 1
    /\ fileWatchers = {}
    /\ pollingTimers = {}
    /\ waitingTimers = {}
    /\ permissionTimers = {}
    /\ jsonlPollTimers = {}
    /\ liveWatchers = [a \in AgentIds |-> 0]
    /\ livePolls = [a \in AgentIds |-> 0]
    /\ doneTimers = <<>>
    /\ activeAgentId = 0
    /\ knownJsonlFiles = {}
    /\ projectScanTimer = ""
    /\ recentFiles = [a \in AgentIds |-> {}]
    /\ out = <<>>
    /\ hist = [delivered |-> [a \in AgentIds |-> <<>>],
               parsed |-> [a \in AgentIds |-> <<>>],
               reassigned |-> <<>>,
               launched |-> {},
               restored |-> {},
               skipped |-> [a \in AgentIds |-> 0],
               liveWaiting |-> [a \in AgentIds |-> 0],
               liveScans |-> 0,
               sink |-> [k \in AgentIds \X ToolIds |-> "none"]]
    /\ editor = NewEditor

\* --- the environment: the agent processes writing the log directory ---

\* A write to file p: its mtime becomes the newest.
Written(p) ==
    /\ mtimeOrder' = SelectSeq(mtimeOrder, LAMBDA f : f # p) \o <<p>>
    /\ recentFiles' = [a \in AgentIds |->
                          IF a \in jsonlPollTimers /\ a \in DOMAIN agents
                             /\ agents[a].jsonlFile = NoPath
                          THEN recentFiles[a] \cup {p} ELSE recentFiles[a]]
    /\ out' = <<>>
    /\ UNCHANGED <<hist, agents, nextAgentId, nextTerminalIndex, fileWatchers,
                   pollingTimers, waitingTimers, permissionTimers, jsonlPollTimers,
                   liveWatchers, livePolls, doneTimers, activeAgentId,
                   knownJsonlFiles, projectScanTimer, editor>>

\* An agent process creates its log file; the file of a session id exists
\* only once the session was launched.
CreateFile(p) ==
    /\ p \notin DOMAIN files
    /\ p[2] = "session" => p \in hist.launched
    /\ files' = MapSet(files, p, <<>>)
    /\ Written(p)

AppendBytes(p, chunk) ==
    /\ p \in DOMAIN files
    /\ files' = [files EXCEPT ![p] = @ \o chunk]
    /\ Written(p)

\* The file is cut back to its first n bytes (rotation, truncation).
Truncate(p, n) ==
    /\ p \in DOMAIN files
    /\ n < Len(files[p])
    /\ files' = [files EXCEPT ![p] = SubSeq(@, 1, n)]
    /\ Written(p)

\* --- the handlers of the extension host ---

Handler(s) == Commit(s) /\ UNCHANGED <<files, mtimeOrder, editor>>

\* Recent(k): the files modified in the two seconds before a launch are the
\* k newest ones, for some k.
RecentSets == {{mtimeOrder[i] : i \in k..Len(mtimeOrder)} : k \in 1..(Len(mtimeOrder) + 1)}

\* webview message openClaude
OpenClaude(provider) ==
    /\ nextAgentId <= MaxAgents
    /\ \E recent \in (IF provider = "codex" THEN RecentSets ELSE {{}}) :
           Handler(launchNewTerminal(Cur, provider, recent))

\* The interval of jsonlPollTimers: armed by the launch, or by the restore.
JsonlPollTick(id) ==
    /\ id \in jsonlPollTimers
    /\ Handler(IF id \in hist.restored THEN restoredPollCallback(Cur, id)
               ELSE jsonlPollCallback(Cur, id))

\* The webview is ready and the agents of the last session are restored.
RestoreAgents(persisted) ==
    /\ hist.restored = {} /\ nextAgentId = 1
    /\ \E terminals \in (SUBSET AgentIds) \ {{}} :
           Handler(restoreAgents(Cur, persisted, terminals))

\* A process of the last session created its log file.
CreateOldFile(p) ==
    /\ p \notin DOMAIN files
    /\ files' = MapSet(files, p, <<>>)
    /\ Written(p)

WatcherFires(id) ==
    /\ liveWatchers[id] > 0
    /\ Handler(readNewLines(Cur, id))

\* A watcher notification whose read fails in the file system.
ReadFails(id) ==
    /\ liveWatchers[id] > 0
    /\ \E io \in IoFailures : Handler(readNewLinesIO(Cur, id, io))

BackupPollTick(id) ==
    /\ livePolls[id] > 0
    /\ Handler(pollingTimerCallback(Cur, id))

ScanTick ==
    /\ projectScanTimer # ""
    /\ \E listing \in Listings(projectScanTimer) :
           Handler(scanForNewJsonlFiles(Cur, listing))

WaitingTimerFires(id) ==
    /\ id \in waitingTimers
    /\ Handler(waitingTimerCallback(Cur, id))

PermissionTimerFires(id) ==
    /\ id \in permissionTimers
    /\ Handler(permissionTimerCallback(Cur, id))

DoneTimerFires ==
    /\ doneTimers # <<>>
    /\ Handler(doneTimerCallback(Cur))

ChangeActiveTerminal(terminal) ==
    /\ terminal \in (DOMAIN agents) \cup {0}
    /\ Handler(onDidChangeActiveTerminal(Cur, terminal))

CloseTerminal(id) ==
    /\ id \in DOMAIN agents
    /\ Handler(onDidCloseTerminal(Cur, id))

(* --------------------------- specifications ---------------------------- *)

\* The records the agent processes write, one per line.
ClaudeLines == {<<"S", "1">>, <<"R", "1">>, <<"U">>, <<"T">>}
CodexLines == {<<"C", "1">>, <<"E", "1">>, <<"P">>}
LinesOf(p) ==
    IF p = NoPath THEN {} ELSE IF p[1] = "claude" THEN ClaudeLines ELSE CodexLines

NumLines(p) == Cardinality({i \in DOMAIN files[p] : files[p][i] = "LF"})

RECURSIVE SumLines(_)
SumLines(ps) ==
    IF ps = {} THEN 0
    ELSE LET p == CHOOSE q \in ps : TRUE IN NumLines(p) + SumLines(ps \ {p})

\* An agent process appends a record to the log file its agent is bound to.
AppendLine(a, max) ==
    /\ SumLines(DOMAIN files) < max
    /\ \E line \in LinesOf(agents[a].jsonlFile) :
           AppendBytes(agents[a].jsonlFile, line \o <<"LF">>)

\* The extension with one terminal open at a time: terminals of either
\* provider are opened and closed, the agent process writes whole records to
\* its log file, and every timer and watcher can fire.
SpecFiles == {p \in Paths : p[2] = "session" \/ (p[1] = "codex" /\ p[3] = 1)}

Next ==
    \/ DOMAIN agents = {} /\ \E provider \in AGENT_PROVIDERS : OpenClaude(provider)
    \/ \E p \in SpecFiles : CreateFile(p)
    \/ \E a \in DOMAIN agents : AppendLine(a, MaxLines)
    \/ \E id \in AgentIds : JsonlPollTick(id)
    \/ \E id \in AgentIds : WatcherFires(id)
    \/ \E id \in AgentIds : BackupPollTick(id)
    \/ ScanTick
    \/ \E id \in AgentIds : WaitingTimerFires(id)
    \/ \E id \in AgentIds : PermissionTimerFires(id)
    \/ DoneTimerFires
    \/ \E terminal \in AgentIds \cup {0} : ChangeActiveTerminal(terminal)
    \/ \E id \in AgentIds : CloseTerminal(id)

Spec == Init /\ [][Next]_vars

\* The scan of the project directory: terminals of either provider are open
\* side by side, log files the extension did not launch appear in the
\* scanned directory, and the active terminal changes.
ScanFiles == {p \in Paths : p[2] = "session" \/ p[1] = projectScanTimer}

NextScan ==
    \/ \E provider \in AGENT_PROVIDERS : OpenClaude(provider)
    \/ \E p \in ScanFiles : CreateFile(p)
    \/ \E id \in AgentIds : JsonlPollTick(id)
    \/ \E id \in AgentIds : WatcherFires(id)
    \/ \E id \in AgentIds : BackupPollTick(id)
    \/ ScanTick
    \/ \E terminal \in AgentIds \cup {0} : ChangeActiveTerminal(terminal)
    \/ \E id \in AgentIds : CloseTerminal(id)

SpecScan == Init /\ [][NextScan]_vars

\* One agent that is reassigned while it works: its process writes records,
\* new log files appear in the scanned directory, and every timer can fire.
ReassignLines == 2

NextReassign ==
    \/ nextAgentId = 1 /\ \E provider \in AGENT_PROVIDERS : OpenClaude(provider)
    \/ \E p \in ScanFiles : CreateFile(p)
    \/ \E a \in DOMAIN agents : AppendLine(a, ReassignLines)
    \/ JsonlPollTick(1)
    \/ WatcherFires(1)
    \/ BackupPollTick(1)
    \/ ScanTick
    \/ WaitingTimerFires(1)
    \/ PermissionTimerFires(1)
    \/ DoneTimerFires
    \/ \E terminal \in {0, 1} : ChangeActiveTerminal(terminal)
    \/ CloseTerminal(1)

SpecReassign == Init /\ [][NextReassign]_vars

\* The tailer, byte by byte: one agent of either provider, its log written
\* one byte at a time and read on watcher notifications and poll ticks.
TailBytes == {"S", "1", "N", "LF", "SP", "C3", "A9"}
TailFiles == {<<"claude", "session", 1>>, <<"codex", "other", 1>>}

\* The log files the launched agent processes write.
Logs == {p \in TailFiles : \E a \in DOMAIN agents : agents[a].provider = p[1]}

NextTail ==
    \/ nextAgentId = 1 /\ \E provider \in AGENT_PROVIDERS : OpenClaude(provider)
    \/ \E p \in Logs : CreateFile(p)
    \/ \E p \in Logs, b \in TailBytes :
           p \in DOMAIN files /\ Len(files[p]) < MaxFileLen /\ AppendBytes(p, <<b>>)
    \/ JsonlPollTick(1)
    \/ WatcherFires(1)
    \/ ReadFails(1)
    \/ BackupPollTick(1)
    \/ ScanTick

SpecTail == Init /\ [][NextTail]_vars

\* A Claude agent whose log file can also be cut back and written again.
TruncBytes == {"1", "LF"}

NextTrunc ==
    \/ nextAgentId = 1 /\ OpenClaude("claude")
    \/ \E p \in Logs : CreateFile(p)
    \/ \E p \in Logs, b \in TruncBytes :
           p \in DOMAIN files /\ Len(files[p]) < MaxFileLen /\ AppendBytes(p, <<b>>)
    \/ \E p \in Logs : Truncate(p, 0)
    \/ JsonlPollTick(1)
    \/ WatcherFires(1)
    \/ BackupPollTick(1)
    \/ ScanTick

SpecTrunc == Init /\ [][NextTrunc]_vars

\* Two agents that work side by side: each process writes whole records to
\* the log file of its agent, and the launch polls, watchers, backup polls
\* and the scan run in any order.
OrderLinesOf(p) ==
    IF p = NoPath THEN {}
    ELSE IF p[1] = "claude" THEN {<<"S", "1">>, <<"R", "1">>}
    ELSE {<<"C", "1">>, <<"N">>}
OrderFiles == {p \in Paths : p[2] = "session" \/ (p[1] = "codex" /\ p[3] = 1)}

AppendOrderLine(a) ==
    /\ SumLines(DOMAIN files) < MaxLines
    /\ \E line \in OrderLinesOf(agents[a].jsonlFile) :
           AppendBytes(agents[a].jsonlFile, line \o <<"LF">>)

NextOrder ==
    \/ \E provider \in AGENT_PROVIDERS : OpenClaude(provider)
    \/ \E p \in OrderFiles : CreateFile(p)
    \/ \E a \in DOMAIN agents : AppendOrderLine(a)
    \/ \E id \in AgentIds : JsonlPollTick(id)
    \/ \E id \in AgentIds : WatcherFires(id)
    \/ \E id \in AgentIds : BackupPollTick(id)
    \/ ScanTick

SpecOrder == Init /\ [][NextOrder]_vars

\* The agents of the last session are restored: their log files were
\* written before, exist or not at the restore, and are written further.
PersistedAgents ==
    <<[id |-> 1, jsonlFile |-> <<"claude", "session", 1>>, provider |-> ""],
      [id |-> 2, jsonlFile |-> <<"codex", "other", 1>>, provider |-> "codex"]>>
RestoreFiles == {PersistedAgents[i].jsonlFile : i \in DOMAIN PersistedAgents}
RestoreBytes == {"S", "1", "LF"}

RECURSIVE SumLen(_)
SumLen(ps) ==
    IF ps = {} THEN 0
    ELSE LET p == CHOOSE q \in ps : TRUE IN Len(files[p]) + SumLen(ps \ {p})

NextRestore ==
    \/ RestoreAgents(PersistedAgents)
    \/ \E p \in RestoreFiles : CreateOldFile(p)
    \/ \E p \in RestoreFiles, b \in RestoreBytes :
           SumLen(DOMAIN files) < MaxFileLen /\ AppendBytes(p, <<b>>)
    \/ \E id \in AgentIds : JsonlPollTick(id)
    \/ \E id \in AgentIds : WatcherFires(id)
    \/ \E id \in AgentIds : BackupPollTick(id)
    \/ ScanTick
    \/ \E id \in AgentIds : CloseTerminal(id)

SpecRestore == Init /\ [][NextRestore]_vars

\* The turn of one agent: its process writes tool records, text, turn ends,
\* status records and user prompts, and every timer can fire.
TurnLinesOf(p) ==
    IF p = NoPath THEN {}
    ELSE IF p[1] = "claude"
    THEN {<<"S", "1">>, <<"S", "2">>, <<"R", "1">>, <<"T">>, <<"D">>, <<"U">>}
    ELSE {<<"C", "1">>, <<"C", "2">>, <<"E", "1">>, <<"W">>, <<"P">>}

TurnLines == 4

AppendTurnLine(a) ==
    /\ SumLines(DOMAIN files) < TurnLines
    /\ \E line \in TurnLinesOf(agents[a].jsonlFile) :
           AppendBytes(agents[a].jsonlFile, line \o <<"LF">>)

NextTurn ==
    \/ nextAgentId = 1 /\ \E provider \in AGENT_PROVIDERS : OpenClaude(provider)
    \/ \E p \in TailFiles : CreateFile(p)
    \/ \E a \in DOMAIN agents : AppendTurnLine(a)
    \/ JsonlPollTick(1)
    \/ WatcherFires(1)
    \/ BackupPollTick(1)
    \/ WaitingTimerFires(1)
    \/ PermissionTimerFires(1)
    \/ DoneTimerFires

SpecTurn == Init /\ [][NextTurn]_vars

\* A cleared session: agents work side by side, the process of a new
\* session writes its first records (whole or in part) before the scan finds
\* its file, and the active agent is reassigned to it.
ClearChunks == {<<"S", "1", "LF">>, <<"T", "LF">>, <<"D", "LF">>, <<"S", "1">>}
ClearLen == 4
ClearFiles == {p \in ScanFiles : p[2] = "session" \/ p[3] = 1}

AppendChunk(p) ==
    /\ p \in DOMAIN files
    /\ \E chunk \in ClearChunks :
           /\ SumLen(DOMAIN files) + Len(chunk) <= ClearLen
           /\ AppendBytes(p, chunk)

NextClear ==
    \/ OpenClaude("claude")
    \/ \E p \in ClearFiles : CreateFile(p)
    \/ \E p \in ClearFiles : AppendChunk(p)
    \/ \E id \in AgentIds : JsonlPollTick(id)
    \/ ScanTick
    \/ \E id \in AgentIds : WaitingTimerFires(id)

SpecClear == Init /\ [][NextClear]_vars

\* Sessions of earlier runs: log files lie in the project directories before
\* the first terminal is launched, others appear later, terminals of either
\* provider are launched and the scan runs.
SeedFiles == {p \in Paths : p[3] = 1 \/ p[1] = "claude"}

NextSeed ==
    \/ \E provider \in AGENT_PROVIDERS : OpenClaude(provider)
    \/ \E p \in SeedFiles : CreateFile(p)
    \/ \E id \in AgentIds : JsonlPollTick(id)
    \/ ScanTick

SpecSeed == Init /\ [][NextSeed]_vars

\* A file system whose change notifications never arrive: one agent of
\* either provider, its process writes whole records, and only the interval
\* timers run. setInterval callbacks keep running until cleared.
PollLines == 3

NextPoll ==
    \/ nextAgentId = 1 /\ \E provider \in AGENT_PROVIDERS : OpenClaude(provider)
    \/ \E p \in TailFiles : CreateFile(p)
    \/ \E a \in DOMAIN agents : AppendLine(a, PollLines)
    \/ JsonlPollTick(1)
    \/ BackupPollTick(1)
    \/ ScanTick

\* The handler result s is a change of the program state.
Differs(s) == [s EXCEPT !.thrown = FALSE] # [Cur EXCEPT !.out = out]

\* ENABLED <<JsonlPollTick(1)>>_vars and ENABLED <<BackupPollTick(1)>>_vars
JsonlPollEnabled ==
    /\ 1 \in jsonlPollTimers
    /\ Differs(IF 1 \in hist.restored THEN restoredPollCallback(Cur, 1)
                                         ELSE jsonlPollCallback(Cur, 1))
BackupPollEnabled ==
    livePolls[1] > 0 /\ Differs(pollingTimerCallback(Cur, 1))

\* Weak fairness of the two interval timers, WF_vars written out.
SpecPoll ==
    /\ Init /\ [][NextPoll]_vars
    /\ ([]<>(~JsonlPollEnabled) \/ []<><<JsonlPollTick(1)>>_vars)
    /\ ([]<>(~BackupPollEnabled) \/ []<><<BackupPollTick(1)>>_vars)

\* A Codex agent whose log holds records of both providers' shapes.
FallbackLines ==
    {<<"C", "1">>, <<"E", "1">>, <<"S", "2">>, <<"R", "2">>, <<"T">>, <<"D">>, <<"U">>}
MixedLines == 3

AppendMixedLine(a) ==
    /\ SumLines(DOMAIN files) < MixedLines
    /\ agents[a].jsonlFile # NoPath
    /\ \E line \in FallbackLines :
           AppendBytes(agents[a].jsonlFile, line \o <<"LF">>)

NextFallback ==
    \/ nextAgentId = 1 /\ OpenClaude("codex")
    \/ CreateFile(<<"codex", "other", 1>>)
    \/ \E a \in DOMAIN agents : AppendMixedLine(a)
    \/ JsonlPollTick(1)
    \/ BackupPollTick(1)
    \/ WaitingTimerFires(1)
    \/ PermissionTimerFires(1)
    \/ DoneTimerFires

SpecFallback == Init /\ [][NextFallback]_vars

\* The registry under launches, a restore and removals in any order: the
\* persisted agents are restored once, for any set of live terminals, before
\* or after terminals were launched.
RestoreAnytime(persisted) ==
    /\ hist.restored = {}
    /\ \E terminals \in (SUBSET AgentIds) \ {{}} :
           Handler(restoreAgents(Cur, persisted, terminals))

NextIds ==
    \/ \E provider \in AGENT_PROVIDERS : OpenClaude(provider)
    \/ RestoreAnytime(PersistedAgents)
    \/ \E p \in RestoreFiles : CreateOldFile(p)
    \/ \E id \in AgentIds : CloseTerminal(id)

SpecIds == Init /\ [][NextIds]_vars

\* --- the layout editor of the webview ---

EditorStep(e) == editor' = e /\ UNCHANGED hostVars

MaxEdits == 3
MaxPosted == 2

\* handleDeleteSelected, handleEditorTileAction: an edit that changes the layout
ApplyEdit(newLayout) ==
    /\ editor.edits < MaxEdits
    /\ newLayout # getLayout(editor)
    /\ EditorStep([applyEdit(editor, newLayout) EXCEPT !.edits = @ + 1])

HandleUndo ==
    /\ editor.undoStack # <<>>
    /\ EditorStep(handleUndo(editor))

HandleReset ==
    /\ editor.edits < MaxEdits
    /\ editor.lastSavedLayoutRef # NoLayout
    /\ EditorStep([handleReset(editor) EXCEPT !.edits = @ + 1])

HandleSave ==
    /\ Len(editor.posted) < MaxPosted
    /\ EditorStep(handleSave(editor))

\* 500 ms after the last saveLayout
SaveTimerFires ==
    /\ editor.timers # {}
    /\ \E t \in editor.timers : EditorStep(saveTimerCallback(editor, t))

NextEditor ==
    \/ \E newLayout \in Layouts : ApplyEdit(newLayout)
    \/ HandleUndo \/ HandleReset \/ HandleSave \/ SaveTimerFires

\* A pending timeout runs unless it is cleared.
SpecEditor == Init /\ [][NextEditor]_vars /\ WF_vars(SaveTimerFires)

\* The methods of EditorState called in any order; at most MaxMarked
\* entries of the stack differ from layout 1.
MaxMarked == 1

PushUndo(layout) ==
    /\ layout = 1 \/ Cardinality({i \in DOMAIN editor.undoStack :
                                     editor.undoStack[i] # 1}) < MaxMarked
    /\ EditorStep(pushUndo(editor, layout))

PopUndo ==
    /\ editor.undoStack # <<>> \/ editor.popped # NoLayout
    /\ EditorStep(popUndo(editor))

Reset ==
    /\ editor.undoStack # <<>>
    /\ EditorStep(reset(editor))

NextUndo ==
    \/ \E layout \in Layouts : PushUndo(layout)
    \/ PopUndo \/ Reset

SpecUndo == Init /\ [][NextUndo]_vars

\* webview message webviewReady
WebviewReady ==
    /\ DOMAIN agents # {}
    /\ \E agentOrder \in Orders(DOMAIN agents) : \E toolOrder \in Orders(ToolIds) :
        Handler(sendExistingAgents(Cur, agentOrder, toolOrder))

\* The webview is opened, or opened again, while two agents work.
ReplayLinesOf(p) ==
    IF p = NoPath THEN {}
    ELSE IF p[1] = "claude" THEN {<<"S", "1">>, <<"S", "2">>, <<"R", "1">>, <<"D">>}
    ELSE {<<"C", "1">>, <<"W">>}
ReplayLines == 3

AppendReplayLine(a) ==
    /\ SumLines(DOMAIN files) < ReplayLines
    /\ \E line \in ReplayLinesOf(agents[a].jsonlFile) :
           AppendBytes(agents[a].jsonlFile, line \o <<"LF">>)

NextReplay ==
    \/ \E provider \in AGENT_PROVIDERS : OpenClaude(provider)
    \/ \E p \in OrderFiles : CreateFile(p)
    \/ \E a \in DOMAIN agents : AppendReplayLine(a)
    \/ \E id \in AgentIds : JsonlPollTick(id)
    \/ \E id \in AgentIds : BackupPollTick(id)
    \/ WebviewReady

SpecReplay == Init /\ [][NextReplay]_vars

\* setTimeout callbacks that are never cleared run: the 300 ms completion
\* timeout has no clearTimeout anywhere in the code.
SpecTurnFair == SpecTurn /\ WF_vars(DoneTimerFires)

(* -------------------------------- claims ------------------------------- *)

Bound(a) == a \in DOMAIN agents /\ agents[a].jsonlFile \in DOMAIN files
FileOf(a) == files[agents[a].jsonlFile]
ReadPrefix(a) == SubSeq(FileOf(a), 1, agents[a].fileOffset)

\* C1: with appends only, the bytes read for an agent since it was bound to
\* its file are exactly the bytes of the file before fileOffset, each once and
\* in file order, and a read leaves fileOffset at the size of the file.
C1_ExactlyOnceBytes ==
    \A a \in DOMAIN agents :
        /\ Bound(a) =>
              /\ agents[a].fileOffset <= Len(FileOf(a))
              /\ hist.delivered[a] = ReadPrefix(a)
              /\ readNewLines(Cur, a).agents[a].fileOffset = Len(FileOf(a))
              /\ readNewLines(Cur, a).hist.delivered[a] = FileOf(a)
        /\ ~Bound(a) => agents[a].fileOffset = 0 /\ hist.delivered[a] = <<>>

C1_Witness ==
    /\ Bound(1)
    /\ Len(hist.delivered[1]) >= 3
    /\ agents[1].lineBuffer # <<>>
    /\ hist.parsed[1] # <<>>

\* The characters of a text with a two-byte character written as the two
\* replacement characters its bytes decode to when a read splits them.
RECURSIVE Flat(_)
Flat(text) ==
    IF text = <<>> THEN <<>>
    ELSE IF Head(text) = "e-acute" THEN <<"FFFD", "FFFD">> \o Flat(Tail(text))
    ELSE <<Head(text)>> \o Flat(Tail(text))

FlatAll(lines) == [i \in 1..Len(lines) |-> Flat(lines[i])]
NonBlank(line) == Trim(line) # <<>>

C3_IdempotentReentry ==
    \A a \in DOMAIN agents :
        LET first == [readNewLines(Cur, a) EXCEPT !.out = <<>>]
        IN readNewLines(first, a) = first

C3_Witness ==
    /\ Bound(1)
    /\ agents[1].fileOffset < Len(FileOf(1))
    /\ readNewLines(Cur, 1).out # <<>>
    /\ agents[1].lineBuffer # <<>>

\* C4: a readNewLines that finds the file shorter than fileOffset resets
\* fileOffset to 0 and empties lineBuffer.
C4_TruncationResets ==
    \A a \in DOMAIN agents :
        (Bound(a) /\ Len(FileOf(a)) < agents[a].fileOffset) =>
            LET after == readNewLines(Cur, a).agents[a] IN
            after.fileOffset = 0 /\ after.lineBuffer = <<>>

\* The tools agent a loses in a step, the completion records processed in a
\* step (each arms one delayed-completion timer), and the agentToolsClear
\* messages of a step.
Lost(a) == agents[a].activeToolIds \ agents'[a].activeToolIds
Completed(a, t) ==
    \E i \in (Len(doneTimers) + 1)..Len(doneTimers') : doneTimers'[i] = <<a, t>>
Cleared(a) ==
    \E i \in DOMAIN out' : out'[i].type = "agentToolsClear" /\ out'[i].id = a

\* C5 (amended): an agent of the registry loses an active tool only when a
\* completion record with the id of a started tool is processed, or when the
\* activity of the agent is cleared as a whole (a new user prompt, or a
\* reassignment), which sends agentToolsClear.
C5_ToolsLeaveByCompletionOrClear ==
    [][\A a \in DOMAIN agents \cap DOMAIN agents' :
          \A t \in Lost(a) :
              \/ Completed(a, t) /\ hist.sink[<<a, t>>] # "none"
              \/ Cleared(a)]_vars

\* C5 witness: a tool of agent 1 was started, and is active no more without
\* a completion record, after a reassignment cleared the activity.
C5_Witness ==
    /\ 1 \in DOMAIN agents
    /\ hist.sink[<<1, "1">>] = "started"
    /\ agents[1].activeToolIds = {}
    /\ doneTimers = <<>>
    /\ hist.reassigned # <<>>
    /\ \E i \in DOMAIN out : out[i].type = "agentToolsClear"

\* C5 as stated: an agent loses an active tool only when a completion
\* record with its id is processed.
C5_ToolsLeaveByCompletionOnly ==
    [][\A a \in DOMAIN agents \cap DOMAIN agents' :
          \A t \in Lost(a) : Completed(a, t)]_vars

\* C6: for every active tool of an agent the sink was sent agentToolStart,
\* and no agentToolDone for the same agent and tool id since.
C6_ActiveToolsStarted ==
    \A a \in DOMAIN agents :
        \A t \in agents[a].activeToolIds : hist.sink[<<a, t>>] = "started"

Unseen == FilesIn(projectScanTimer) \ knownJsonlFiles
Reassignments(h, f) == Cardinality({i \in DOMAIN h : h[i][2] = f})

\* C7: a scan tick adds every unseen file to knownJsonlFiles and, when the
\* active agent is in the registry, reassigns that agent to the file exactly
\* once; no file is the target of two reassignments, and a scan tick that
\* finds no unseen file reassigns nothing and changes no agent.
C7_ScanReassignsOnce ==
    /\ [](\A f \in DOMAIN files : Reassignments(hist.reassigned, f) <= 1)
    /\ [][ScanTick =>
             /\ Unseen \subseteq knownJsonlFiles'
             /\ activeAgentId \in DOMAIN agents =>
                   /\ \A f \in Unseen :
                         \E i \in (Len(hist.reassigned) + 1)..Len(hist'.reassigned) :
                             hist'.reassigned[i] = <<activeAgentId, f>>
                   /\ Len(hist'.reassigned) = Len(hist.reassigned) + Cardinality(Unseen)
                   /\ agents'[activeAgentId].jsonlFile \in Unseen \cup {agents[activeAgentId].jsonlFile}
                   /\ \A a \in DOMAIN agents \ {activeAgentId} : agents'[a] = agents[a]
             /\ Unseen = {} =>
                   hist'.reassigned = hist.reassigned /\ agents' = agents]_vars

\* C7 witness: with two agents in the registry, a scan tick has reassigned
\* one of them to a file that is now known.
C7_Witness ==
    /\ Cardinality(DOMAIN agents) = 2
    /\ Len(hist.reassigned) = 1
    /\ hist.reassigned[1][1] \in DOMAIN agents
    /\ agents[hist.reassigned[1][1]].jsonlFile = hist.reassigned[1][2]
    /\ hist.reassigned[1][2] \in knownJsonlFiles
    /\ Unseen = {}

\* C8: one scan tick performs at most one reassignment.
C8_AtMostOneReassignment ==
    [][Len(hist'.reassigned) <= Len(hist.reassigned) + 1]_vars

Tables(s) ==
    s.fileWatchers \cup s.pollingTimers \cup s.jsonlPollTimers
        \cup s.waitingTimers \cup s.permissionTimers

\* C9: removeAgent(id) leaves no record of id in the registry and no entry
\* for id in the tables of watchers and timers, as the state after a closed
\* terminal shows; for an id that is not in the registry it changes nothing.
C9_RemoveAgentClears ==
    /\ \A id \in AgentIds :
           LET after == removeAgent(Cur, id) IN
           /\ id \notin DOMAIN after.agents
           /\ id \notin Tables(after)
           /\ id \notin DOMAIN agents => after = Cur
    /\ \A i \in DOMAIN out :
           out[i].type = "agentClosed" =>
               out[i].id \notin DOMAIN agents \cup Tables(Cur)

\* C9 witness: the terminal of agent 1, an agent that had started a tool,
\* was closed.
C9_Witness ==
    /\ \E i \in DOMAIN out : out[i].type = "agentClosed" /\ out[i].id = 1
    /\ hist.sink[<<1, "1">>] = "started"
    /\ 1 \notin DOMAIN agents

\* C10: no message that carries the id of a removed agent is sent to the
\* sink after the removal (agentClosed is sent by the removal itself).
C10_NoEventAfterRemoval ==
    \A i \in DOMAIN out :
        (out[i].id \in 1..(nextAgentId - 1) /\ out[i].id \notin DOMAIN agents) =>
            out[i].type = "agentClosed"

(* ------------------------ tool start records --------------------------- *)

Count(q, x) == Cardinality({i \in DOMAIN q : q[i] = x})
StartsOf(q, a, t) ==
    Cardinality({i \in DOMAIN q : q[i].type = "agentToolStart"
                                     /\ q[i].id = a /\ q[i].toolId = t})
Str_Reading_a_ts == <<"Reading ", "a", ".", "t", "s">>
Str_Running_npm_test == <<"Running: ", "n", "p", "m", " ", "t", "e", "s", "t">>

\* The assistant records with tool_use blocks: one block, a text block and
\* two tool_use blocks, a tool_use block followed by a null block.
ToolUseLines == {<<"S", "1">>, <<"S", "2">>, <<"M">>, <<"B">>}

\* C11: for a Claude agent, after an assistant record with tool_use blocks
\* is processed, every block with an id is in activeToolIds with the status
\* formatToolStatus(name, input) ("Reading a.ts" for Read of /repo/a.ts),
\* one agentToolStart with that id and status was posted, agentStatus active
\* was posted, the agent is not waiting and its waiting timer is cancelled.
C11_ClaudeToolUseStarts ==
    \A a \in DOMAIN agents :
        agents[a].provider # "codex" =>
            \A line \in ToolUseLines :
                LET after == processTranscriptLine(Cur, a, line)
                    blocks == ParseJson(line).blocks
                IN /\ \A i \in DOMAIN blocks :
                          (blocks[i].type = "tool_use" /\ blocks[i].id # "") =>
                              LET id == blocks[i].id
                                  status == formatToolStatus(blocks[i].name, blocks[i].input)
                              IN /\ id \in after.agents[a].activeToolIds
                                 /\ after.agents[a].activeToolStatuses[id] = status
                                 /\ Count(after.out, Msg("agentToolStart", a, id, status)) = 1
                                 /\ StartsOf(after.out, a, id) = 1
                                 /\ (blocks[i].name = "Read"
                                        /\ blocks[i].input.file_path = Str_repo_a_ts)
                                       => status = Str_Reading_a_ts
                   /\ Count(after.out, Msg("agentStatus", a, "", "active")) >= 1
                   /\ ~after.agents[a].isWaiting
                   /\ a \notin after.waitingTimers

\* C11 witness: the last handler processed the Read record of Claude agent 1
\* and posted agentStatus active and agentToolStart "Reading a.ts".
C11_Witness ==
    /\ 1 \in DOMAIN agents
    /\ agents[1].provider = "claude"
    /\ "1" \in agents[1].activeToolIds
    /\ agents[1].activeToolStatuses["1"] = Str_Reading_a_ts
    /\ Count(out, Msg("agentToolStart", 1, "1", Str_Reading_a_ts)) = 1
    /\ Count(out, Msg("agentStatus", 1, "", "active")) = 1
    /\ ~agents[1].isWaiting
    /\ 1 \notin waitingTimers

\* The Codex start records: tool_call with id, name and arguments, and
\* tool_start with tool_id, tool_name and input next to id, name, arguments.
ToolStartLines == {<<"C", "1">>, <<"C", "2">>, <<"G", "1">>, <<"G", "2">>}
ExpectedCodexStatus(line) ==
    CASE line = <<"C", "1">> -> Str_Running_npm_test
      [] line = <<"C", "2">> -> <<"Waiting for your answer">>
      [] OTHER -> Str_Reading_a_ts

\* C12: for a Codex agent, after a tool_start or tool_call record with a
\* tool id is processed, the id is in activeToolIds, its status is
\* formatToolStatus of the name normalized through CODEX_TOOL_NAME_MAP and
\* of the input / arguments ("Running: npm test" for run_command with
\* command npm test), one agentToolStart with that id and status was
\* posted, and the agent is not waiting.
C12_CodexToolStarts ==
    \A a \in DOMAIN agents :
        agents[a].provider = "codex" =>
            \A line \in ToolStartLines :
                LET after == processTranscriptLine(Cur, a, line)
                    record == ParseJson(line)
                    id == line[2]
                    name == IF record.tool_name # "" THEN record.tool_name ELSE record.name
                    input == IF record.input.present THEN record.input ELSE record.arguments
                    status == formatToolStatus(normalizeCodexToolName(name), input)
                IN /\ id \in {record.tool_id, record.id}
                   /\ id \in after.agents[a].activeToolIds
                   /\ after.agents[a].activeToolStatuses[id] = status
                   /\ status = ExpectedCodexStatus(line)
                   /\ Count(after.out, Msg("agentToolStart", a, id, status)) = 1
                   /\ StartsOf(after.out, a, id) = 1
                   /\ ~after.agents[a].isWaiting

\* C12 witness: the last handler processed the run_command record of Codex
\* agent 1 and posted agentToolStart "Running: npm test".
C12_Witness ==
    /\ 1 \in DOMAIN agents
    /\ agents[1].provider = "codex"
    /\ "1" \in agents[1].activeToolIds
    /\ agents[1].activeToolStatuses["1"] = Str_Running_npm_test
    /\ Count(out, Msg("agentToolStart", 1, "1", Str_Running_npm_test)) = 1
    /\ ~agents[1].isWaiting

\* One line of every record shape of the model, and a line that is no JSON.
RecordLines ==
    {<<k, t>> : k \in {"S", "R", "C", "G", "E"}, t \in ToolIds}
        \cup {<<k>> : k \in {"M", "B", "T", "K", "U", "V", "D", "W", "I", "A", "P", "N", "X"}}
\* The records only the Codex parser acts on.
CodexOnlyLines ==
    {<<k, t>> : k \in {"C", "G", "E"}, t \in ToolIds} \cup {<<k>> : k \in {"W", "I", "A", "P"}}
ProviderStrings == {"claude", "codex", "unknown", ""}

\* C13: processTranscriptLine hands the line to the Codex parser exactly
\* when the provider of the agent is codex and to the Claude parser for every
\* other agent (a record only the Codex parser knows changes nothing for a
\* Claude agent and changes the state for a Codex agent); for an agent id that
\* is not in the registry it changes nothing and posts nothing; and
\* resolveAgentProvider gives codex for "codex" only.
C13_RoutesByProvider ==
    /\ \A p \in ProviderStrings :
           /\ resolveAgentProvider(p) \in {"claude", "codex"}
           /\ resolveAgentProvider(p) = "codex" <=> p = "codex"
    /\ \A id \in AgentIds \cup {0, MaxAgents + 1} :
           \A line \in RecordLines :
               LET after == processTranscriptLine(Cur, id, line) IN
               IF id \notin DOMAIN agents THEN after = Cur
               ELSE IF agents[id].provider = "codex"
               THEN /\ after = processCodexTranscriptLine(Cur, id, line)
                    /\ line \in CodexOnlyLines => after # Cur
               ELSE /\ after = processClaudeTranscriptLine(Cur, id, line)
                    /\ line \in CodexOnlyLines => after = Cur

\* C13 witness: the last handler read the user text record of Codex agent 1,
\* which only the Codex parser acts on, and cleared the activity of the agent.
C13_Witness ==
    /\ 1 \in DOMAIN agents
    /\ agents[1].provider = "codex"
    /\ hist.parsed[1] # <<>>
    /\ Last(hist.parsed[1]) = <<"P">>
    /\ Count(out, Msg("agentToolsClear", 1, "", "")) = 1
    /\ hist.sink[<<1, "1">>] = "started"

RECURSIVE IsSubseq(_, _)
\* q is p with some elements left out, the others in the order of p.
IsSubseq(q, p) ==
    IF q = <<>> THEN TRUE
    ELSE IF p = <<>> THEN FALSE
    ELSE IF Head(q) = Head(p) THEN IsSubseq(Tail(q), Tail(p))
    ELSE IsSubseq(q, Tail(p))

IsPrefix(q, p) == Len(q) <= Len(p) /\ SubSeq(p, 1, Len(q)) = q

\* C14: the lines handed to the parser for an agent since it was bound to
\* its file are lines of the file in the order of the file, whatever the
\* order of launch polls, watcher notifications, backup polls and reads for
\* the other agent; a step only appends to them (a reassignment to another
\* file starts them anew), and a read for one agent hands on no line of
\* another.
C14_ParsedInFileOrder ==
    /\ [](\A a \in DOMAIN agents :
             /\ Bound(a) =>
                    IsSubseq(hist.parsed[a],
                             SelectSeq(Front(Split(Utf8Decode(ReadPrefix(a)))), NonBlank))
             /\ \A b \in DOMAIN agents \ {a} :
                    readNewLines(Cur, b).hist.parsed[a] = hist.parsed[a])
    /\ [][\A a \in DOMAIN agents \cap DOMAIN agents' :
             \/ IsPrefix(hist.parsed[a], hist'.parsed[a])
             \/ agents'[a].jsonlFile # agents[a].jsonlFile]_vars

\* C14 witness: two agents are bound to files, two lines of the file of
\* agent 1 were handed to the parser, and lines of agent 2 as well.
C14_Witness ==
    /\ Bound(1) /\ Bound(2)
    /\ Len(hist.parsed[1]) >= 2
    /\ hist.parsed[1][1] # hist.parsed[1][2]
    /\ hist.parsed[2] # <<>>

CompletionLine(a, t) ==
    IF agents[a].provider = "codex" THEN <<"E", t>> ELSE <<"R", t>>

\* C15: a completion record (tool_result, tool_end) with a tool id that is
\* not in the activeToolIds of the agent changes no agent, arms no timer
\* (neither a table entry nor a delayed agentToolDone) and posts no message,
\* for agents of both providers.
C15_UnmatchedCompletionIgnored ==
    \A a \in DOMAIN agents :
        \A t \in ToolIds \ agents[a].activeToolIds :
            LET after == processTranscriptLine(Cur, a, CompletionLine(a, t)) IN
            /\ after.agents = agents
            /\ after.doneTimers = doneTimers
            /\ Tables(after) = Tables(Cur)
            /\ after.out = <<>>

StartLine(a, t) ==
    IF agents[a].provider = "codex" THEN <<"C", t>> ELSE <<"S", t>>

\* C16: a start record (tool_use, tool_call) with a tool id that is already
\* in the activeToolIds of the agent posts no agentToolStart for that id.
C16_NoSecondToolStart ==
    \A a \in DOMAIN agents :
        \A t \in agents[a].activeToolIds \cap ToolIds :
            StartsOf(processTranscriptLine(Cur, a, StartLine(a, t)).out, a, t) = 0

\* The malformed lines: text that is no JSON, the JSON value null, and an
\* assistant record whose blocks array holds a null after a tool_use block.
MalformedLines == {<<"X">>, <<"N">>, <<"B">>}

\* C17: a malformed line posts no message and leaves the agents and the
\* timers as they were, and the line that follows it in the same read is
\* still handed to the parser.
C17_MalformedLineSkipped ==
    \A a \in DOMAIN agents :
        \A line \in MalformedLines :
            /\ [processTranscriptLine(Cur, a, line) EXCEPT !.thrown = FALSE] = Cur
            /\ \A next \in RecordLines :
                   processLines(Cur, a, <<line, next>>).hist.parsed[a]
                       = hist.parsed[a] \o <<line, next>>

\* C18: a readNewLines during which the file does not exist, or statSync,
\* openSync, readSync or closeSync throws, leaves fileOffset and lineBuffer
\* as they were and posts nothing, and the next call that succeeds hands on
\* what a call without the failure would have: every byte from the
\* unchanged offset to the end of the file.
C18_FailedReadKeepsOffset ==
    \A a \in DOMAIN agents :
        /\ ~Bound(a) => readNewLines(Cur, a) = Cur
        /\ \A io \in IoFailures :
               LET failed == readNewLinesIO(Cur, a, io)
                   later == readNewLines(failed, a)
               IN /\ failed.agents[a].fileOffset = agents[a].fileOffset
                  /\ failed.agents[a].lineBuffer = agents[a].lineBuffer
                  /\ failed.out = <<>>
                  /\ later = readNewLines(Cur, a)
                  /\ Bound(a) => /\ later.hist.delivered[a] = FileOf(a)
                                 /\ later.agents[a].fileOffset = Len(FileOf(a))

\* C18 witness: agent 1 has read a part of its file and keeps an
\* unterminated line, more bytes were written since; a read that fails now
\* changes nothing and the read after it hands a line to the parser.
C18_Witness ==
    /\ Bound(1)
    /\ 0 < agents[1].fileOffset
    /\ agents[1].fileOffset < Len(FileOf(1))
    /\ agents[1].lineBuffer # <<>>
    /\ readNewLinesIO(Cur, 1, "read") = Cur
    /\ readNewLines(readNewLinesIO(Cur, 1, "read"), 1).hist.parsed[1] # hist.parsed[1]

\* The values of activeAgentId that designate no agent of the registry:
\* null, and the id of an agent that is gone.
NoAgentPointers == ({0} \cup AgentIds) \ DOMAIN agents

\* C19: a scan while activeAgentId is null or no id of the registry adds
\* every unseen file to knownJsonlFiles and changes nothing else (no agent,
\* no watcher, no timer, no message, no reassignment); a later scan with an
\* agent designated reassigns nothing for these files, and no step ever
\* reassigns an agent to a file that is already known.
C19_ScanWithoutActiveAgent ==
    /\ [](\A ptr \in NoAgentPointers :
             \A listing \in Listings(projectScanTimer) :
                 LET s0 == [Cur EXCEPT !.activeAgentId = ptr]
                     after == scanForNewJsonlFiles(s0, listing)
                 IN /\ after =
                          [s0 EXCEPT !.knownJsonlFiles = @ \cup FilesIn(projectScanTimer)]
                    /\ \A a \in DOMAIN agents :
                           \A later \in Listings(projectScanTimer) :
                               LET s1 == [after EXCEPT !.activeAgentId = a]
                               IN scanForNewJsonlFiles(s1, later) = s1)
    /\ [][\A f \in knownJsonlFiles :
             Reassignments(hist'.reassigned, f) = Reassignments(hist.reassigned, f)]_vars

\* C19 witness: while agent 1 has an active tool and no agent is active, the
\* file written last, a file no agent was launched with, is known and empty,
\* and no reassignment ever happened: a scan found it and left it alone.
C19_Witness ==
    /\ 1 \in DOMAIN agents
    /\ activeAgentId = 0
    /\ agents[1].activeToolIds # {}
    /\ mtimeOrder # <<>>
    /\ Last(mtimeOrder)[2] = "other"
    /\ Last(mtimeOrder) \in knownJsonlFiles
    /\ files[Last(mtimeOrder)] = <<>>
    /\ agents[1].jsonlFile # Last(mtimeOrder)
    /\ hist.reassigned = <<>>

\* C20: the log file a terminal was launched for is in knownJsonlFiles from
\* the launch on, before a scan tick can find it on disk, and no agent is
\* ever reassigned to it, in whatever order launch polls and scan ticks run.
C20_ExpectedFileKnownAtLaunch ==
    /\ hist.launched \subseteq knownJsonlFiles
    /\ \A i \in DOMAIN hist.reassigned : hist.reassigned[i][2] \notin hist.launched

\* C20 witness: the file agent 1 was launched for was on disk before another
\* file that a scan tick reassigned an agent to; agent 1 still reads the file
\* of its launch, which its launch poll found.
C20_Witness ==
    /\ Bound(1)
    /\ agents[1].jsonlFile \in hist.launched
    /\ 1 \notin jsonlPollTimers
    /\ 1 \in fileWatchers
    /\ hist.reassigned # <<>>
    /\ \E i, j \in DOMAIN mtimeOrder :
           /\ i < j
           /\ mtimeOrder[i] = agents[1].jsonlFile
           /\ mtimeOrder[j] = hist.reassigned[1][2]

\* C21: for an agent restoreAgents bound to its persisted log file, the
\* bytes read are the bytes of the file after the size it had when the
\* tailing began (at the restore, or when the poll found the file), no line
\* is parsed and no tool event posted that does not come from those bytes,
\* and nothing is read or parsed before the tailing began.
C21_RestoreSkipsHistory ==
    \A a \in DOMAIN agents \cap hist.restored :
        /\ a \in jsonlPollTimers =>
               /\ hist.delivered[a] = <<>> /\ hist.parsed[a] = <<>>
               /\ \A t \in ToolIds : hist.sink[<<a, t>>] = "none"
        /\ (Bound(a) /\ a \notin jsonlPollTimers) =>
               /\ hist.skipped[a] <= agents[a].fileOffset
               /\ hist.delivered[a] =
                      SubSeq(FileOf(a), hist.skipped[a] + 1, agents[a].fileOffset)
               /\ IsSubseq(hist.parsed[a],
                           Front(Split(Utf8Decode(hist.delivered[a]))))
               /\ hist.parsed[a] = <<>> =>
                      \A t \in ToolIds : hist.sink[<<a, t>>] = "none"

\* C21 witness: agent 1 was restored when its file held a record already,
\* and a record written since was read and parsed.
C21_Witness ==
    /\ 1 \in DOMAIN agents \cap hist.restored
    /\ Bound(1)
    /\ hist.skipped[1] >= 2
    /\ FileOf(1)[hist.skipped[1]] = "LF"
    /\ FileOf(1)[1] # "LF"
    /\ hist.parsed[1] # <<>>
    /\ agents[1].fileOffset = Len(FileOf(1))

\* C22: a text-only assistant record changes no agent and posts no
\* agentStatus waiting, it arms the waiting timer; and the waiting timer of an
\* agent is pending only while that record is the last one processed for the
\* agent, so that it fires only if no other record came first.
C22_TextOnlyArmsDebounce ==
    \A a \in DOMAIN agents :
        /\ LET after == processTranscriptLine(Cur, a, <<"T">>) IN
               /\ after.agents = agents
               /\ Count(after.out, Msg("agentStatus", a, "", "waiting")) = 0
               /\ a \in after.waitingTimers
        /\ a \in waitingTimers =>
               hist.parsed[a] # <<>> /\ Last(hist.parsed[a]) = <<"T">>

\* C23: a system turn_duration record sets isWaiting, posts exactly one
\* agentStatus waiting and cancels the pending waiting timer; after it no
\* waiting timer armed by a text-only record before it is left to fire.
C23_TurnDurationEndsTurn ==
    \A a \in DOMAIN agents :
        /\ LET after == processTranscriptLine(Cur, a, <<"D">>) IN
               /\ after.agents[a].isWaiting
               /\ Count(after.out, Msg("agentStatus", a, "", "waiting")) = 1
               /\ Len(after.out) = 1
               /\ a \notin after.waitingTimers
        /\ (hist.parsed[a] # <<>> /\ Last(hist.parsed[a]) = <<"D">>) =>
               agents[a].isWaiting /\ a \notin waitingTimers

\* C23 witness: agent 1 read a text-only record and then the turn_duration
\* record in one read; it is waiting, one agentStatus waiting was posted and
\* no waiting timer is pending.
C23_Witness ==
    /\ 1 \in DOMAIN agents
    /\ Len(hist.parsed[1]) >= 2
    /\ Last(hist.parsed[1]) = <<"D">>
    /\ hist.parsed[1][Len(hist.parsed[1]) - 1] = <<"T">>
    /\ agents[1].isWaiting
    /\ waitingTimers = {}
    /\ out = <<Msg("agentStatus", 1, "", "waiting")>>

PromptLine(a) == IF agents[a].provider = "codex" THEN <<"P">> ELSE <<"U">>

\* C24: a new user prompt empties activeToolIds and posts agentToolsClear,
\* and leaves isWaiting as it was before the record.
C24_PromptKeepsTurnState ==
    \A a \in DOMAIN agents :
        LET after == processTranscriptLine(Cur, a, PromptLine(a)) IN
        /\ after.agents[a].activeToolIds = {}
        /\ Count(after.out, Msg("agentToolsClear", a, "", "")) = 1
        /\ after.agents[a].isWaiting = agents[a].isWaiting

\* C25: in every reachable state an agent that is recorded as waiting has
\* no outstanding tool: isWaiting implies activeToolIds is empty.
C25_WaitingHasNoTools ==
    \A a \in DOMAIN agents : agents[a].isWaiting => agents[a].activeToolIds = {}

\* C26: a completion record for a started tool removes its id from
\* activeToolIds; if none remains the permission timer is cancelled and
\* isWaiting becomes true, otherwise isWaiting and the permission timer are
\* left unchanged.
C26_CompletionEndsLastTool ==
    \A a \in DOMAIN agents : \A t \in agents[a].activeToolIds :
        LET after == processTranscriptLine(Cur, a, CompletionLine(a, t)) IN
        /\ t \notin after.agents[a].activeToolIds
        /\ after.agents[a].activeToolIds = {} =>
               /\ after.agents[a].isWaiting
               /\ a \notin after.permissionTimers
        /\ after.agents[a].activeToolIds # {} =>
               /\ after.agents[a].isWaiting = agents[a].isWaiting
               /\ (a \in after.permissionTimers) = (a \in permissionTimers)

ToolDone(a, t) == Msg("agentToolDone", a, t, "")
DonePending(a, t) == \E i \in DOMAIN doneTimers : doneTimers[i] = <<a, t>>
DonePosted(q) == \E i \in DOMAIN q : q[i].type = "agentToolDone"

\* A completion record for an active tool takes the id out of activeToolIds,
\* arms one completion timeout for it and posts no agentToolDone itself; the
\* id has had its agentToolStart posted.
C27_CompletionArmsOne ==
    \A a \in DOMAIN agents : \A t \in agents[a].activeToolIds :
        LET after == processTranscriptLine(Cur, a, CompletionLine(a, t)) IN
        /\ after.doneTimers = Append(doneTimers, <<a, t>>)
        /\ ~DonePosted(after.out)
        /\ t \notin after.agents[a].activeToolIds
        /\ hist.sink[<<a, t>>] # "none"

\* agentToolDone is posted only by the oldest pending completion timeout,
\* once, for its own agent and tool id, and the timeout is then gone; no
\* other handler removes or reorders a pending timeout.
C27_DoneOnlyByTimeout ==
    /\ DonePosted(out') =>
           /\ doneTimers # <<>>
           /\ doneTimers' = Tail(doneTimers)
           /\ out' = <<ToolDone(Head(doneTimers)[1], Head(doneTimers)[2])>>
    /\ ~DonePosted(out') => IsPrefix(doneTimers, doneTimers')

\* C27: every completion record processed for an active tool id leads to
\* exactly one agentToolDone for that id, posted by a timeout after the id
\* left activeToolIds and after its agentToolStart, whatever records are
\* processed in between.
C27_CompletionLeadsToToolDone ==
    /\ []C27_CompletionArmsOne
    /\ [][C27_DoneOnlyByTimeout]_vars
    /\ \A a \in AgentIds : \A t \in ToolIds :
           DonePending(a, t) ~> (out = <<ToolDone(a, t)>>)

\* C27 witness: agentToolDone of tool 1 is posted after a further record of
\* the agent was processed during the delay, the tool being active no more.
C27_Witness ==
    /\ 1 \in DOMAIN agents
    /\ out = <<ToolDone(1, "1")>>
    /\ Len(hist.parsed[1]) >= 3
    /\ hist.parsed[1][1] = StartLine(1, "1")
    /\ hist.parsed[1][2] = CompletionLine(1, "1")
    /\ "1" \notin agents[1].activeToolIds
    /\ doneTimers = <<>>

WaitingMsg(a) == Msg("agentStatus", a, "", "waiting")

\* C28: per agent at most one waiting timeout is live, and it is the one in
\* the waitingTimers table; startWaitingTimer replaces a pending timeout by
\* one new one, so a further text-only record posts nothing and leaves one
\* timeout; a timeout that ran posted one agentStatus waiting and, like a
\* cancelled one, has no entry left.
C28_OneWaitingTimer ==
    \A a \in AgentIds :
        /\ hist.liveWaiting[a] = IF a \in waitingTimers THEN 1 ELSE 0
        /\ LET after == startWaitingTimer(Cur, a) IN
               a \in after.waitingTimers /\ after.hist.liveWaiting[a] = 1
        /\ LET after == cancelWaitingTimer(Cur, a) IN
               a \notin after.waitingTimers /\ after.hist.liveWaiting[a] = 0
        /\ a \in waitingTimers =>
               LET after == waitingTimerCallback(Cur, a) IN
               /\ a \notin after.waitingTimers
               /\ after.hist.liveWaiting[a] = 0
               /\ after.out = <<WaitingMsg(a)>>
        /\ a \in DOMAIN agents =>
               LET after == processTranscriptLine(Cur, a, <<"T">>) IN
               /\ after.out = <<>>
               /\ a \in after.waitingTimers
               /\ after.hist.liveWaiting[a] = 1

\* C28 witness: two text-only records in a row were parsed for agent 1 and
\* the one timeout they left has run and posted agentStatus waiting.
C28_Witness ==
    /\ 1 \in DOMAIN agents
    /\ hist.parsed[1] = <<<<"T">>, <<"T">>>>
    /\ waitingTimers = {}
    /\ hist.liveWaiting[1] = 0
    /\ out = <<WaitingMsg(1)>>
    /\ agents[1].isWaiting

\* What a reassignment of agent a leaves alone: the records and the timers
\* of the other agents.
OthersUnchanged(after, a) ==
    \A b \in AgentIds \ {a} :
        /\ (b \in DOMAIN agents) = (b \in DOMAIN after.agents)
        /\ b \in DOMAIN agents => after.agents[b] = agents[b]
        /\ (b \in after.fileWatchers) = (b \in fileWatchers)
        /\ (b \in after.pollingTimers) = (b \in pollingTimers)
        /\ (b \in after.waitingTimers) = (b \in waitingTimers)
        /\ (b \in after.permissionTimers) = (b \in permissionTimers)
        /\ (b \in after.jsonlPollTimers) = (b \in jsonlPollTimers)
        /\ after.liveWatchers[b] = liveWatchers[b]
        /\ after.livePolls[b] = livePolls[b]

\* The rest of a file after its last line feed.
RECURSIVE Remainder(_)
Remainder(bytes) ==
    IF bytes = <<>> \/ Last(bytes) = "LF" THEN <<>>
    ELSE Append(Remainder(Front(bytes)), Last(bytes))

ClearPair(a) ==
    <<Msg("agentToolsClear", a, "", ""), Msg("agentStatus", a, "", "active")>>

\* What every reassignment of agent a to file F does: one watcher and one
\* backup poll are left, on F; agentToolsClear and agentStatus active are
\* posted first; jsonlFile = F; F is read from byte 0 to its end.
ReassignRebinds(after, a, F) ==
    /\ after.agents[a].jsonlFile = F
    /\ after.agents[a].fileOffset = Len(files[F])
    /\ after.hist.delivered[a] = files[F]
    /\ after.liveWatchers[a] = 1 /\ a \in after.fileWatchers
    /\ after.livePolls[a] = 1 /\ a \in after.pollingTimers
    /\ IsPrefix(ClearPair(a), after.out)
    /\ OthersUnchanged(after, a)

Launches ==
    {<<provider, recent>> \in AGENT_PROVIDERS \X RecentSets :
        provider = "claude" => recent = {}}

\* The first activation seeds knownJsonlFiles with every file of the
\* directory and arms the one scan interval; an activation while the
\* interval runs changes nothing, and a launch then adds at most its own
\* expected session file to knownJsonlFiles.
C30_SeedOnce ==
    /\ hist.liveScans = IF projectScanTimer # "" THEN 1 ELSE 0
    /\ \A d \in Dirs :
           LET after == ensureProjectScan(Cur, d) IN
           IF projectScanTimer = ""
           THEN /\ FilesIn(d) \subseteq after.knownJsonlFiles
                /\ after.projectScanTimer = d
                /\ after.hist.liveScans = 1
                /\ after.hist.reassigned = hist.reassigned
           ELSE after = Cur
    /\ \A l \in Launches :
           LET after == launchNewTerminal(Cur, l[1], l[2]) IN
           IF projectScanTimer = ""
           THEN FilesIn(projectDirFromWorkspace(l[1])) \subseteq after.knownJsonlFiles
           ELSE /\ after.knownJsonlFiles \ knownJsonlFiles \subseteq
                       {expectedSessionFilePath(l[1], nextTerminalIndex)}
                /\ after.projectScanTimer = projectScanTimer
                /\ after.hist.liveScans = 1

\* A file of knownJsonlFiles stays in it and is the target of no further
\* reassignment; the running scan interval is never replaced.
C30_KnownNeverReassigned ==
    /\ knownJsonlFiles \subseteq knownJsonlFiles'
    /\ \A f \in knownJsonlFiles :
           Reassignments(hist.reassigned', f) = Reassignments(hist.reassigned, f)
    /\ projectScanTimer # "" => projectScanTimer' = projectScanTimer

\* C30: the files that exist in the directory when the scan is first
\* activated are all in knownJsonlFiles before the first scan tick and are
\* never the target of a reassignment; activating the scan again while its
\* interval runs neither seeds knownJsonlFiles again nor arms a second
\* interval.
C30_ExistingFilesSeeded ==
    /\ []C30_SeedOnce
    /\ [][C30_KnownNeverReassigned]_vars

\* C30 witness: a file lay in the directory before the first launch, a
\* second terminal was launched, a second file appeared afterwards, and the
\* scan reassigned the active agent to the second file only.
C30_Witness ==
    /\ DOMAIN agents = {1, 2}
    /\ agents[1].provider = "claude" /\ agents[2].provider = "claude"
    /\ projectScanTimer = "claude"
    /\ {<<"claude", "other", 1>>, <<"claude", "other", 2>>} \subseteq knownJsonlFiles
    /\ hist.reassigned = <<<<2, <<"claude", "other", 2>>>>>>
    /\ hist.liveScans = 1

OtherShapeLines == RecordLines \ CodexOnlyLines

\* The state s with agent a taken for an agent of the given provider.
AsProvider(s, a, provider) == [s EXCEPT !.agents[a].provider = provider]

\* What processing a record leaves behind: agents, timers, posted messages.
Effects(s) ==
    [agents |-> s.agents, waitingTimers |-> s.waitingTimers,
     permissionTimers |-> s.permissionTimers, doneTimers |-> s.doneTimers,
     out |-> s.out, sink |-> s.hist.sink, liveWaiting |-> s.hist.liveWaiting]

\* C32: a Codex agent that processes a record of none of the Codex shapes
\* ends with the agent state, the timers and the posted messages a Claude
\* agent ends with on the same line from the same state.
C32_FallbackEqualsClaude ==
    \A a \in DOMAIN agents : \A line \in OtherShapeLines :
        agents[a].provider = "codex" =>
            Effects(processTranscriptLine(Cur, a, line))
                = Effects(AsProvider(
                      processTranscriptLine(AsProvider(Cur, a, "claude"), a, line),
                      a, "codex"))

\* C32 witness: Codex agent 1, with a tool of its own shape started, read a
\* Claude tool_use record and a turn_duration record through the fallback.
C32_Witness ==
    /\ 1 \in DOMAIN agents
    /\ agents[1].provider = "codex"
    /\ hist.parsed[1] = <<<<"C", "1">>, <<"S", "2">>, <<"D">>>>
    /\ agents[1].activeToolIds = {"1", "2"}
    /\ agents[1].isWaiting
    /\ hist.sink[<<1, "2">>] = "started"

\* The normalized tool name of a Codex tool start record.
StartedName(line) == extractToolName(ParseJson(line))

C34_FreshAgentIds ==
    /\ \A a \in DOMAIN agents : a < nextAgentId
    /\ \A l \in Launches :
           LET after == launchNewTerminal(Cur, l[1], l[2]) IN
           /\ DOMAIN after.agents = DOMAIN agents \cup {nextAgentId}
           /\ \A a \in DOMAIN agents : a < nextAgentId /\ after.agents[a] = agents[a]
           /\ after.nextAgentId = nextAgentId + 1
    /\ \A terminals \in SUBSET AgentIds :
           LET after == restoreAgents(Cur, PersistedAgents, terminals) IN
           /\ \A a \in DOMAIN after.agents : a < after.nextAgentId
           /\ after.nextAgentId >= nextAgentId

\* C34 witness: agent 1 was restored, and the terminal launched afterwards
\* got id 2.
C34_Witness ==
    /\ DOMAIN agents = {1, 2}
    /\ hist.restored = {1}
    /\ nextAgentId = 3
    /\ out = <<Msg("agentCreated", 2, "", "")>>

\* C35: no two agents of the registry are bound to the same log file.
C35_OneAgentPerFile ==
    \A a, b \in DOMAIN agents :
        (a # b /\ agents[a].jsonlFile = agents[b].jsonlFile) =>
            agents[a].jsonlFile = NoPath

\* C36: each agent has at most one live file watcher and at most one live
\* backup poll interval.
C36_OneWatcherOnePoll ==
    \A a \in AgentIds : liveWatchers[a] <= 1 /\ livePolls[a] <= 1

\* The tools a view shows as not done for agent a, with their status text.
ShownTools(view, a) ==
    {<<view.agentTools[a][i].toolId, view.agentTools[a][i].status>> :
        i \in {j \in DOMAIN view.agentTools[a] : ~view.agentTools[a][j].done}}

\* C37: the replay sent on webviewReady brings a webview with empty state to
\* the registry: its agents are the ids of the registry in ascending order,
\* the tools it shows as not done for an agent are the active tools of the
\* agent with their status text, and it shows waiting exactly for the agents
\* whose isWaiting is set, whatever the iteration order of the maps.
C37_ReplayRebuildsView ==
    \A agentOrder \in Orders(DOMAIN agents) : \A toolOrder \in Orders(ToolIds) :
        LET view == AppReceives(EmptyView,
                                sendExistingAgents(Cur, agentOrder, toolOrder).out)
        IN /\ Len(view.agents) = Cardinality(DOMAIN agents)
           /\ \A i \in DOMAIN view.agents : view.agents[i] \in DOMAIN agents
           /\ \A i, j \in DOMAIN view.agents : i < j => view.agents[i] < view.agents[j]
           /\ \A a \in DOMAIN agents :
                  /\ ShownTools(view, a) =
                         {<<t, agents[a].activeToolStatuses[t]>> :
                             t \in agents[a].activeToolIds}
                  /\ (view.agentStatuses[a] = "waiting") = agents[a].isWaiting
           /\ \A a \in AgentIds \ DOMAIN agents :
                  view.agentTools[a] = <<>> /\ view.agentStatuses[a] = ""

\* C37 witness: the replay was sent for two agents, one with an active
\* tool and one waiting, and it carried the ids, a tool start and a waiting
\* status.
C37_Witness ==
    /\ DOMAIN agents = {1, 2}
    /\ \E a \in DOMAIN agents : agents[a].activeToolIds # {}
    /\ \E a \in DOMAIN agents : agents[a].isWaiting
    /\ Len(out) >= 3
    /\ out[1] = ExistingAgentsMsg(<<1, 2>>)
    /\ \E i \in DOMAIN out : out[i].type = "agentToolStart"
    /\ out[Len(out)].type = "agentStatus" /\ out[Len(out)].status = "waiting"

\* C38: at most one save timer is pending and it carries the layout of the
\* last edit, which the office shows.
C38_OneSaveTimer ==
    /\ Cardinality(editor.timers) <= 1
    /\ \A t \in editor.timers : t[1] = editor.saveTimerRef /\ t[2] = getLayout(editor)

\* C38: a saveLayout message is posted one at a time, it carries the layout
\* of the last edit, and it leaves no timer pending: a burst of edits is
\* followed by one message, and nothing is posted after handleSave until the
\* next edit.
C38_PostLeavesNoTimer ==
    [][editor.posted' # editor.posted =>
          /\ editor.posted' = Append(editor.posted, getLayout(editor))
          /\ getLayout(editor') = getLayout(editor)
          /\ editor.timers' = {}]_vars

\* C38: edits and undos made less than the debounce interval apart keep one
\* timer pending, and when it runs exactly one saveLayout message is posted
\* with the layout of the last edit; handleSave clears the pending timer and
\* posts the current layout at once; a pending save is posted in the end.
C38_DebouncedSave ==
    /\ []C38_OneSaveTimer
    /\ C38_PostLeavesNoTimer
    /\ \A n \in 0..(2 * MaxEdits + MaxPosted) :
           (editor.timers # {} /\ Len(editor.posted) = n) ~> (Len(editor.posted) > n)

\* C38 witness: after a burst of two edits, the second back to the first
\* layout, the timer ran and posted one message with the last layout.
C38_Witness ==
    /\ editor.undoStack = <<1, 2>>
    /\ getLayout(editor) = 1
    /\ editor.posted = <<1>>
    /\ editor.timers = {}
    /\ editor.saveTimerRef # 0

\* C39: the undo stack holds at most 50 layouts; pushUndo appends and on a
\* full stack drops the oldest entry, popUndo returns the newest entry and
\* removes it, or returns null on an empty stack, and reset empties the stack.
C39_UndoStackBounded ==
    /\ Len(editor.undoStack) <= 50
    /\ \A layout \in Layouts :
           pushUndo(editor, layout).undoStack =
               IF Len(editor.undoStack) = 50
               THEN Tail(editor.undoStack) \o <<layout>>
               ELSE editor.undoStack \o <<layout>>
    /\ IF editor.undoStack = <<>>
       THEN popUndo(editor).popped = NoLayout /\ popUndo(editor).undoStack = <<>>
       ELSE /\ popUndo(editor).popped = editor.undoStack[Len(editor.undoStack)]
            /\ popUndo(editor).undoStack =
                   SubSeq(editor.undoStack, 1, Len(editor.undoStack) - 1)
    /\ reset(editor).undoStack = <<>>

\* C39 witness: the stack is full, a marked layout pushed earlier has been
\* shifted out at the bottom, and the last pop returned a layout.
C39_Witness ==
    /\ Len(editor.undoStack) = 50
    /\ editor.discarded = 2
    /\ editor.popped = 1

====
